---- MODULE Spec2Model ----
(***************************************************************************)
(* thetadata-api-python: the request/response client (parameter validators, *)
(* request transport, response shaper, CSV sink, endpoint catalog) and the  *)
(* websocket consumers that append streamed events to CSV files, as a       *)
(* state machine.  One catalog call is one atomic step: validation,         *)
(* parameter assembly, the transport call, shaping and the CSV write.  One  *)
(* inbound stream message is one atomic step of the consumer: there is no   *)
(* await between the receive and the next receive.                          *)
(***************************************************************************)
EXTENDS Integers, Sequences, FiniteSets, TLC

VARIABLES
    client,     \* the constructed client class: "options" | "snapshot" | "historical"
    use_df,     \* ThetaDataStocksHistorical.use_df
    dirExists,  \* os.path.exists(self.output_dir)
    files,      \* the CSV files of output_dir: file name -> content
    ncalls,     \* number of calls made on the client so far
    last,       \* what the most recent call was given, did and returned
    probe,      \* the most recent direct call of a validator of utils.py
    writes      \* the direct calls of _write_csv made so far, oldest first

\* the websocket consumer (src/src/websockets)
VARIABLES
    pc,             \* "off" | "start" | "connected" | "streaming" | "terminated"
    consumer,       \* the script run: "stream_trades_to_csv" | "stream_quotes_to_csv"
    sec_type,       \* argument sec_type of stream_bulk_trades / stream_bulk_quotes
    req_type,       \* argument req_type (stream_bulk_quotes passes "QUOTE")
    id,             \* argument id
    connections,    \* number of websocket connections opened so far
    frames,         \* the frames sent on the websocket, oldest first
    nmsgs,          \* number of messages received and given to handle_response
    dirs,           \* the directories that exist under the working directory
    disk,           \* the files under the working directory: path -> lines
    disk0,          \* the files that were there when the process started
    download_stats, \* download_stats: root -> count (a defaultdict(int))
    error,          \* the exception that ended the process, "none" while it runs
    step,           \* the most recent message handled and what became of it
    appended        \* per path, the lines this process appended, oldest first

requestVars == <<client, use_df, dirExists, files, ncalls, last, probe, writes>>
streamVars == <<pc, consumer, sec_type, req_type, id, connections, frames, nmsgs,
                dirs, disk, disk0, download_stats, error, step, appended>>
vars == <<client, use_df, dirExists, files, ncalls, last, probe, writes,
          pc, consumer, sec_type, req_type, id, connections, frames, nmsgs,
          dirs, disk, disk0, download_stats, error, step, appended>>

\* no message handled yet
NoStep == [msg |-> "none", result |-> "none", exc |-> "none",
           before |-> [dirs |-> {}, disk |-> <<>>, download_stats |-> <<>>]]

\* no consumer is run
StreamOff ==
    /\ pc = "off"
    /\ consumer = "none"
    /\ sec_type = "none"
    /\ req_type = "none"
    /\ id = 0
    /\ connections = 0
    /\ frames = <<>>
    /\ nmsgs = 0
    /\ dirs = {}
    /\ disk = <<>>
    /\ disk0 = <<>>
    /\ download_stats = <<>>
    /\ error = "none"
    /\ step = NoStep
    /\ appended = <<>>

-----------------------------------------------------------------------------
(* Python values.  Every value carries its type in field t, so that values *)
(* of different Python types can be told apart.                            *)

PyNone == [t |-> "None"]
PyInt(i) == [t |-> "int", v |-> i]
PyStr(s) == [t |-> "str", v |-> s]
\* a float with one decimal place: whole + tenths/10
PyFloat(w, d) == [t |-> "float", whole |-> w, tenths |-> d]
PyNaN == [t |-> "nan"]
PyDict(d) == [t |-> "dict", v |-> d]

\* A str whose characters matter is a sequence of characters; a character is
\* written as a one-character string, except characters outside ASCII, which
\* are written by name ("sup2" is U+00B2 SUPERSCRIPT TWO).
AsciiDigits == {"0", "1", "2", "3", "4", "5", "6", "7", "8", "9"}
\* str.isdigit() is true of every character with Numeric_Type Decimal or
\* Digit: the decimal digits and, among others, the superscript digits.
NonDecimalDigits == {"sup2"}

RECURSIVE Join(_)
Join(cs) == IF cs = <<>> THEN "" ELSE Head(cs) \o Join(Tail(cs))

-----------------------------------------------------------------------------
(* utils.py *)

MinIvl == 100
MaxIvl == 3600000

isdigit(s) == Len(s) > 0 /\ \A i \in 1..Len(s) : s[i] \in AsciiDigits \cup NonDecimalDigits

\* also ThetaDataStocksHistorical._is_valid_date_format, which repeats it
is_valid_date_format(date_string) ==
    Len(date_string) = 8 /\ isdigit(date_string)

is_valid_right_nocase(right) == right \in {"C", "P", "c", "p"}
is_valid_right(right) == right \in {"C", "P"}

is_valid_ivl_open(ivl) == MinIvl < ivl /\ ivl <= MaxIvl
is_valid_ivl(ivl) == MinIvl <= ivl /\ ivl <= MaxIvl

-----------------------------------------------------------------------------
(* The transport's environment: what the terminal process does with the one *)
(* GET request of a call.  kind is the outcome inside the try block of      *)
(* send_request; text is the raw body received, body the decoded JSON.      *)

EmptyDict == [k \in {} |-> PyNone]
NoBody == EmptyDict
NetConnectionError == [kind |-> "ConnectionError", text |-> "", body |-> NoBody]
NetHTTPError == [kind |-> "HTTPError", text |-> "error body", body |-> NoBody]
NetJSONDecodeError == [kind |-> "JSONDecodeError", text |-> "not json", body |-> NoBody]
NetOk(b) == [kind |-> "ok", text |-> "json", body |-> b]

\* bool(response) in the except block: response is still None when
\* requests.get raised, and Response.__bool__ is Response.ok (status < 400)
ResponseTruthy(net) == net.kind \in {"ok", "JSONDecodeError"}

\* The exception raised inside the try block, "none" when response.json()
\* returns: requests.get raises ConnectionError or Timeout, raise_for_status
\* raises HTTPError, response.json() raises requests.JSONDecodeError.
RaisedInTry(net) == IF net.kind = "ok" THEN "none" ELSE net.kind

\* except requests.RequestException: the classes of requests.exceptions
\* derived from RequestException (JSONDecodeError is one of them since
\* requests 2.27).
OnlyConnectionErrors == {"ConnectionError", "Timeout"}
RequestException == {"ConnectionError", "Timeout", "HTTPError", "JSONDecodeError"}

\* send_request: what it returns (ret), the exception it lets through (exc,
\* "none" when it returns) and the "Response text" it logs ("" when it logs none).
\* ThetaDataStocksHistorical logs it only under enable_logging; logged is then
\* what it logs with logging enabled.
send_request(endpoint, params, net) ==
    LET e == RaisedInTry(net) IN
    IF e = "none"
    THEN [exc |-> "none", ret |-> PyDict(net.body), logged |-> ""]
    ELSE IF e \in RequestException
    THEN [exc |-> "none", ret |-> PyNone,
          logged |-> IF ResponseTruthy(net) THEN net.text ELSE "No response"]
    ELSE [exc |-> e, ret |-> PyNone, logged |-> ""]

-----------------------------------------------------------------------------
(* pandas *)

CellTypes(data, j) == {data[i][j].t : i \in 1..Len(data)}

\* The dtype inference of pd.DataFrame on one column of Python objects: a
\* column of numbers and None holding a float or a None becomes float64
\* (int -> float, None -> NaN); every other column keeps its objects.
FloatColumn(types) ==
    /\ types \subseteq {"int", "float", "None"}
    /\ types \cap {"int", "float"} # {}
    /\ types \cap {"float", "None"} # {}

ConvertToText(cell, types) ==
    IF cell.t = "int" THEN PyStr(ToString(cell.v)) ELSE cell
Convert(cell, types) ==
    IF ~FloatColumn(types) THEN cell
    ELSE IF cell.t = "int" THEN PyFloat(cell.v, 0)
    ELSE IF cell.t = "None" THEN PyNaN
    ELSE cell

\* pd.DataFrame(data, columns=columns) of a list of rows: ValueError when the
\* rows are not as wide as the column list.
DataFrame(data, columns) ==
    IF \E i \in 1..Len(data) : Len(data[i]) # Len(columns)
    THEN [exc |-> "ValueError", df |-> PyNone]
    ELSE [exc |-> "none",
          df |-> [t |-> "DataFrame", columns |-> columns,
                  rows |-> [i \in 1..Len(data) |->
                              [j \in 1..Len(columns) |->
                                  Convert(data[i][j], CellTypes(data, j))]]]]

\* One field of a line of DataFrame.to_csv(index=False).
CsvField(cell) ==
    CASE cell.t = "str" -> cell.v
      [] cell.t = "int" -> ToString(cell.v)
      [] cell.t = "float" -> ToString(cell.whole) \o "." \o ToString(cell.tenths)
      [] OTHER -> ""

\* DataFrame.to_csv(index=False): the header line, then one line per row.
to_csv(df) ==
    <<df.columns>> \o [i \in 1..Len(df.rows) |->
                          [j \in 1..Len(df.columns) |-> CsvField(df.rows[i][j])]]

-----------------------------------------------------------------------------
(* base.py: ThetaDataBase (stocks.py repeats it for ThetaDataStocksSnapshot) *)

\* bool(x): None, the empty dict, the empty string and zero are falsy
PyTruthy(x) ==
    CASE x.t = "None" -> FALSE
      [] x.t = "dict" -> DOMAIN x.v # {}
      [] x.t = "str" -> x.v # ""
      [] x.t = "int" -> x.v # 0
      [] OTHER -> TRUE

FileName(datatype, identifier) == datatype \o "_" \o identifier \o ".csv"

\* _write_csv: the file system after it
_write_csv_versioned(df, datatype, identifier, dir, fs) ==
    LET filename == IF FileName(datatype, identifier) \in DOMAIN fs
                    THEN FileName(datatype, identifier \o "_1")
                    ELSE FileName(datatype, identifier) IN
    [dir |-> TRUE,
     files |-> [f \in DOMAIN fs \cup {filename} |->
                   IF f = filename THEN to_csv(df) ELSE fs[f]]]
_write_csv_append(df, datatype, identifier, dir, fs) ==
    LET filename == FileName(datatype, identifier) IN
    [dir |-> TRUE,
     files |-> [f \in DOMAIN fs \cup {filename} |->
                   IF f # filename THEN fs[f]
                   ELSE IF f \in DOMAIN fs THEN fs[f] \o Tail(to_csv(df))
                   ELSE to_csv(df)]]
_write_csv_dry(df, datatype, identifier, dir, fs) ==
    [dir |-> TRUE, files |-> fs]
_write_csv(df, datatype, identifier, dir, fs) ==
    LET filename == FileName(datatype, identifier) IN
    [dir |-> TRUE,
     files |-> [f \in DOMAIN fs \cup {filename} |->
                   IF f = filename THEN to_csv(df) ELSE fs[f]]]

\* response["header"]["format"] and response["response"]: the KeyError of a
\* missing key
LookupError(d) ==
    \/ "header" \notin DOMAIN d
    \/ "format" \notin DOMAIN d.header
    \/ "response" \notin DOMAIN d

\* _process_response: ret, the exception it lets through, and the file
\* system after it
_process_response_mkdir(response, write_csv, datatype, identifier, dir, fs) ==
    IF PyTruthy(response)
    THEN IF LookupError(response.v)
         THEN [exc |-> "KeyError", ret |-> PyNone, dir |-> dir, files |-> fs]
         ELSE LET made == DataFrame(response.v.response, response.v.header.format) IN
              IF made.exc # "none"
              THEN [exc |-> made.exc, ret |-> PyNone, dir |-> dir, files |-> fs]
              ELSE LET after == IF write_csv
                                THEN _write_csv(made.df, datatype, identifier, dir, fs)
                                ELSE [dir |-> dir, files |-> fs] IN
                   [exc |-> "none", ret |-> made.df, dir |-> after.dir, files |-> after.files]
    ELSE [exc |-> "none", ret |-> PyNone, dir |-> dir \/ write_csv, files |-> fs]
_process_response(response, write_csv, datatype, identifier, dir, fs) ==
    IF PyTruthy(response)
    THEN IF LookupError(response.v)
         THEN [exc |-> "KeyError", ret |-> PyNone, dir |-> dir, files |-> fs]
         ELSE LET made == DataFrame(response.v.response, response.v.header.format) IN
              IF made.exc # "none"
              THEN [exc |-> made.exc, ret |-> PyNone, dir |-> dir, files |-> fs]
              ELSE LET after == IF write_csv
                                THEN _write_csv(made.df, datatype, identifier, dir, fs)
                                ELSE [dir |-> dir, files |-> fs] IN
                   [exc |-> "none", ret |-> made.df, dir |-> after.dir, files |-> after.files]
    ELSE [exc |-> "none", ret |-> PyNone, dir |-> dir, files |-> fs]

-----------------------------------------------------------------------------
(* The endpoint catalog: one record per entry, read off its method.         *)
(*   sig          the parameters of the method                              *)
(*   check_right  "if not is_valid_right(right): raise ValueError"          *)
(*   ivl_check    "strict":   if not is_valid_ivl(ivl): raise               *)
(*                "zero_ok":  if ivl != 0 and not is_valid_ivl(ivl): raise  *)
(*                "optional": if ivl is not None: (check; params["ivl"])    *)
(*                "none":     no check                                      *)
(*   check_dates  the date-format check that returns None                   *)
(*   check_venue  "if venue: (check; params["venue"] = venue)"              *)
(*   required     the keys of the params literal                            *)
(*   bools        the keys assigned str(x).lower()                          *)
(*   if_truthy    the keys added under "if x:"                              *)
(*   if_not_none  the keys added under "if x is not None:"                  *)
(*   root_from    the argument params["root"] is made of                    *)
(*   shaper       "_process_response", or "inline" (stocks_historical.py)   *)
(*   columns      "format" (header.format) or "fixed" (a literal list)      *)
(*   datatype, ident   the category label and the shape of the identifier   *)

get_quote_at_time ==
    [name |-> "get_quote_at_time", cls |-> "options", endpoint |-> "/v2/at_time/option/quote",
     sig |-> {"root", "exp", "strike", "right", "start_date", "end_date", "ivl", "rth", "write_csv"},
     check_right |-> TRUE, ivl_check |-> "strict", check_dates |-> FALSE, check_venue |-> FALSE,
     required |-> {"root", "exp", "strike", "right", "start_date", "end_date", "ivl", "rth"}, bools |-> {"rth"},
     if_truthy |-> {}, if_not_none |-> {},
     root_from |-> "root", shaper |-> "_process_response", columns |-> "format",
     datatype |-> "option_quote", ident |-> "contract"]

get_trade_at_time ==
    [name |-> "get_trade_at_time", cls |-> "options", endpoint |-> "/v2/at_time/option/trade",
     sig |-> {"root", "exp", "strike", "right", "start_date", "end_date", "ivl", "rth", "write_csv"},
     check_right |-> TRUE, ivl_check |-> "strict", check_dates |-> FALSE, check_venue |-> FALSE,
     required |-> {"root", "exp", "strike", "right", "start_date", "end_date", "ivl", "rth"}, bools |-> {"rth"},
     if_truthy |-> {}, if_not_none |-> {},
     root_from |-> "root", shaper |-> "_process_response", columns |-> "format",
     datatype |-> "option_trade", ident |-> "contract"]

get_bulk_quote_at_time ==
    [name |-> "get_bulk_quote_at_time", cls |-> "options", endpoint |-> "/v2/bulk_at_time/option/quote",
     sig |-> {"root", "exp", "start_date", "end_date", "ivl", "rth", "write_csv"},
     check_right |-> FALSE, ivl_check |-> "strict", check_dates |-> FALSE, check_venue |-> FALSE,
     required |-> {"root", "exp", "start_date", "end_date", "ivl", "rth"}, bools |-> {"rth"},
     if_truthy |-> {}, if_not_none |-> {},
     root_from |-> "root", shaper |-> "_process_response", columns |-> "format",
     datatype |-> "bulk_option_quote", ident |-> "root_exp"]

get_bulk_trade_at_time ==
    [name |-> "get_bulk_trade_at_time", cls |-> "options", endpoint |-> "/v2/bulk_at_time/option/trade",
     sig |-> {"root", "exp", "start_date", "end_date", "ivl", "rth", "write_csv"},
     check_right |-> FALSE, ivl_check |-> "strict", check_dates |-> FALSE, check_venue |-> FALSE,
     required |-> {"root", "exp", "start_date", "end_date", "ivl", "rth"}, bools |-> {"rth"},
     if_truthy |-> {}, if_not_none |-> {},
     root_from |-> "root", shaper |-> "_process_response", columns |-> "format",
     datatype |-> "bulk_option_trade", ident |-> "root_exp"]

get_historical_eod_report ==
    [name |-> "get_historical_eod_report", cls |-> "options", endpoint |-> "/v2/hist/option/eod",
     sig |-> {"root", "exp", "strike", "right", "start_date", "end_date", "write_csv"},
     check_right |-> TRUE, ivl_check |-> "none", check_dates |-> FALSE, check_venue |-> FALSE,
     required |-> {"root", "exp", "strike", "right", "start_date", "end_date"}, bools |-> {},
     if_truthy |-> {}, if_not_none |-> {},
     root_from |-> "root", shaper |-> "_process_response", columns |-> "format",
     datatype |-> "historical_eod", ident |-> "contract"]

get_historical_quotes ==
    [name |-> "get_historical_quotes", cls |-> "options", endpoint |-> "/v2/hist/option/quote",
     sig |-> {"root", "exp", "strike", "right", "start_date", "end_date", "ivl", "rth", "start_time", "end_time", "write_csv"},
     check_right |-> TRUE, ivl_check |-> "zero_ok", check_dates |-> FALSE, check_venue |-> FALSE,
     required |-> {"root", "exp", "strike", "right", "start_date", "end_date", "ivl", "rth"}, bools |-> {"rth"},
     if_truthy |-> {"start_time", "end_time"}, if_not_none |-> {},
     root_from |-> "root", shaper |-> "_process_response", columns |-> "format",
     datatype |-> "historical_quotes", ident |-> "contract"]

get_historical_ohlc ==
    [name |-> "get_historical_ohlc", cls |-> "options", endpoint |-> "/v2/hist/option/ohlc",
     sig |-> {"root", "exp", "strike", "right", "start_date", "end_date", "ivl", "rth", "start_time", "end_time", "write_csv"},
     check_right |-> TRUE, ivl_check |-> "strict", check_dates |-> FALSE, check_venue |-> FALSE,
     required |-> {"root", "exp", "strike", "right", "start_date", "end_date", "ivl", "rth"}, bools |-> {"rth"},
     if_truthy |-> {"start_time", "end_time"}, if_not_none |-> {},
     root_from |-> "root", shaper |-> "_process_response", columns |-> "format",
     datatype |-> "historical_ohlc", ident |-> "contract"]

get_historical_open_interest ==
    [name |-> "get_historical_open_interest", cls |-> "options", endpoint |-> "/v2/hist/option/open_interest",
     sig |-> {"root", "exp", "strike", "right", "start_date", "end_date", "write_csv"},
     check_right |-> TRUE, ivl_check |-> "none", check_dates |-> FALSE, check_venue |-> FALSE,
     required |-> {"root", "exp", "strike", "right", "start_date", "end_date"}, bools |-> {},
     if_truthy |-> {}, if_not_none |-> {},
     root_from |-> "root", shaper |-> "_process_response", columns |-> "format",
     datatype |-> "historical_open_interest", ident |-> "contract"]

get_historical_trades ==
    [name |-> "get_historical_trades", cls |-> "options", endpoint |-> "/v2/hist/option/trade",
     sig |-> {"root", "exp", "strike", "right", "start_date", "end_date", "start_time", "end_time", "use_csv", "write_csv"},
     check_right |-> TRUE, ivl_check |-> "none", check_dates |-> FALSE, check_venue |-> FALSE,
     required |-> {"root", "exp", "strike", "right", "start_date", "end_date", "use_csv"}, bools |-> {"use_csv"},
     if_truthy |-> {"start_time", "end_time"}, if_not_none |-> {},
     root_from |-> "root", shaper |-> "_process_response", columns |-> "format",
     datatype |-> "historical_trades", ident |-> "contract"]

get_historical_trade_quote ==
    [name |-> "get_historical_trade_quote", cls |-> "options", endpoint |-> "/v2/hist/option/trade_quote",
     sig |-> {"root", "exp", "strike", "right", "start_date", "end_date", "exclusive", "rth", "use_csv", "write_csv"},
     check_right |-> TRUE, ivl_check |-> "none", check_dates |-> FALSE, check_venue |-> FALSE,
     required |-> {"root", "exp", "strike", "right", "start_date", "end_date", "exclusive", "rth", "use_csv"}, bools |-> {"exclusive", "rth", "use_csv"},
     if_truthy |-> {}, if_not_none |-> {},
     root_from |-> "root", shaper |-> "_process_response", columns |-> "format",
     datatype |-> "historical_trade_quote", ident |-> "contract"]

get_historical_implied_volatility ==
    [name |-> "get_historical_implied_volatility", cls |-> "options", endpoint |-> "/v2/hist/option/implied_volatility",
     sig |-> {"root", "exp", "strike", "right", "start_date", "end_date", "ivl", "rth", "use_csv", "write_csv"},
     check_right |-> TRUE, ivl_check |-> "strict", check_dates |-> FALSE, check_venue |-> FALSE,
     required |-> {"root", "exp", "strike", "right", "start_date", "end_date", "ivl", "rth", "use_csv"}, bools |-> {"rth", "use_csv"},
     if_truthy |-> {}, if_not_none |-> {},
     root_from |-> "root", shaper |-> "_process_response", columns |-> "format",
     datatype |-> "historical_implied_volatility", ident |-> "contract"]

get_historical_greeks ==
    [name |-> "get_historical_greeks", cls |-> "options", endpoint |-> "/v2/hist/option/greeks",
     sig |-> {"root", "exp", "strike", "right", "start_date", "end_date", "ivl", "rth", "use_csv", "write_csv"},
     check_right |-> TRUE, ivl_check |-> "zero_ok", check_dates |-> FALSE, check_venue |-> FALSE,
     required |-> {"root", "exp", "strike", "right", "start_date", "end_date", "ivl", "rth", "use_csv"}, bools |-> {"rth", "use_csv"},
     if_truthy |-> {}, if_not_none |-> {},
     root_from |-> "root", shaper |-> "_process_response", columns |-> "format",
     datatype |-> "historical_greeks", ident |-> "contract"]

get_historical_greeks_second_order ==
    [name |-> "get_historical_greeks_second_order", cls |-> "options", endpoint |-> "/v2/hist/option/greeks_second_order",
     sig |-> {"root", "exp", "strike", "right", "start_date", "end_date", "ivl", "rth", "use_csv", "write_csv"},
     check_right |-> TRUE, ivl_check |-> "zero_ok", check_dates |-> FALSE, check_venue |-> FALSE,
     required |-> {"root", "exp", "strike", "right", "start_date", "end_date", "ivl", "rth", "use_csv"}, bools |-> {"rth", "use_csv"},
     if_truthy |-> {}, if_not_none |-> {},
     root_from |-> "root", shaper |-> "_process_response", columns |-> "format",
     datatype |-> "historical_greeks_second_order", ident |-> "contract"]

get_historical_greeks_third_order ==
    [name |-> "get_historical_greeks_third_order", cls |-> "options", endpoint |-> "/v2/hist/option/greeks_third_order",
     sig |-> {"root", "exp", "strike", "right", "start_date", "end_date", "ivl", "rth", "use_csv", "write_csv"},
     check_right |-> TRUE, ivl_check |-> "zero_ok", check_dates |-> FALSE, check_venue |-> FALSE,
     required |-> {"root", "exp", "strike", "right", "start_date", "end_date", "ivl", "rth", "use_csv"}, bools |-> {"rth", "use_csv"},
     if_truthy |-> {}, if_not_none |-> {},
     root_from |-> "root", shaper |-> "_process_response", columns |-> "format",
     datatype |-> "historical_greeks_third_order", ident |-> "contract"]

get_historical_all_greeks ==
    [name |-> "get_historical_all_greeks", cls |-> "options", endpoint |-> "/v2/hist/option/all_greeks",
     sig |-> {"root", "exp", "strike", "right", "start_date", "end_date", "ivl", "rth", "use_csv", "write_csv"},
     check_right |-> TRUE, ivl_check |-> "zero_ok", check_dates |-> FALSE, check_venue |-> FALSE,
     required |-> {"root", "exp", "strike", "right", "start_date", "end_date", "ivl", "rth", "use_csv"}, bools |-> {"rth", "use_csv"},
     if_truthy |-> {}, if_not_none |-> {},
     root_from |-> "root", shaper |-> "_process_response", columns |-> "format",
     datatype |-> "historical_all_greeks", ident |-> "contract"]

get_historical_trade_greeks ==
    [name |-> "get_historical_trade_greeks", cls |-> "options", endpoint |-> "/v2/hist/option/trade_greeks",
     sig |-> {"root", "exp", "strike", "right", "start_date", "end_date", "perf_boost", "use_csv", "write_csv"},
     check_right |-> TRUE, ivl_check |-> "none", check_dates |-> FALSE, check_venue |-> FALSE,
     required |-> {"root", "exp", "strike", "right", "start_date", "end_date", "perf_boost", "use_csv"}, bools |-> {"perf_boost", "use_csv"},
     if_truthy |-> {}, if_not_none |-> {},
     root_from |-> "root", shaper |-> "_process_response", columns |-> "format",
     datatype |-> "historical_trade_greeks", ident |-> "contract"]

get_historical_trade_greeks_second_order ==
    [name |-> "get_historical_trade_greeks_second_order", cls |-> "options", endpoint |-> "/v2/hist/option/trade_greeks_second_order",
     sig |-> {"root", "exp", "strike", "right", "start_date", "end_date", "perf_boost", "use_csv", "write_csv"},
     check_right |-> TRUE, ivl_check |-> "none", check_dates |-> FALSE, check_venue |-> FALSE,
     required |-> {"root", "exp", "strike", "right", "start_date", "end_date", "perf_boost", "use_csv"}, bools |-> {"perf_boost", "use_csv"},
     if_truthy |-> {}, if_not_none |-> {},
     root_from |-> "root", shaper |-> "_process_response", columns |-> "format",
     datatype |-> "historical_trade_greeks_second_order", ident |-> "contract"]

get_historical_trade_greeks_third_order ==
    [name |-> "get_historical_trade_greeks_third_order", cls |-> "options", endpoint |-> "/v2/hist/option/trade_greeks_third_order",
     sig |-> {"root", "exp", "strike", "right", "start_date", "end_date", "perf_boost", "use_csv", "write_csv"},
     check_right |-> TRUE, ivl_check |-> "none", check_dates |-> FALSE, check_venue |-> FALSE,
     required |-> {"root", "exp", "strike", "right", "start_date", "end_date", "perf_boost", "use_csv"}, bools |-> {"perf_boost", "use_csv"},
     if_truthy |-> {}, if_not_none |-> {},
     root_from |-> "root", shaper |-> "_process_response", columns |-> "format",
     datatype |-> "historical_trade_greeks_third_order", ident |-> "contract"]

get_bulk_eod ==
    [name |-> "get_bulk_eod", cls |-> "options", endpoint |-> "/v2/bulk_hist/option/eod",
     sig |-> {"root", "exp", "start_date", "end_date", "annual_div", "rate", "rate_value", "under_price", "use_csv", "write_csv"},
     check_right |-> FALSE, ivl_check |-> "none", check_dates |-> FALSE, check_venue |-> FALSE,
     required |-> {"root", "exp", "start_date", "end_date", "annual_div", "rate", "use_csv"}, bools |-> {"use_csv"},
     if_truthy |-> {}, if_not_none |-> {"rate_value", "under_price"},
     root_from |-> "root", shaper |-> "_process_response", columns |-> "format",
     datatype |-> "bulk_option_eod", ident |-> "root_exp"]

get_bulk_quote ==
    [name |-> "get_bulk_quote", cls |-> "options", endpoint |-> "/v2/bulk_hist/option/quote",
     sig |-> {"root", "exp", "start_date", "end_date", "ivl", "start_time", "end_time", "use_csv", "write_csv"},
     check_right |-> FALSE, ivl_check |-> "strict", check_dates |-> FALSE, check_venue |-> FALSE,
     required |-> {"root", "exp", "start_date", "end_date", "ivl", "use_csv"}, bools |-> {"use_csv"},
     if_truthy |-> {"start_time", "end_time"}, if_not_none |-> {},
     root_from |-> "root", shaper |-> "_process_response", columns |-> "format",
     datatype |-> "bulk_option_quote", ident |-> "root_exp"]

get_bulk_ohlc ==
    [name |-> "get_bulk_ohlc", cls |-> "options", endpoint |-> "/v2/bulk_hist/option/ohlc",
     sig |-> {"root", "exp", "start_date", "end_date", "ivl", "start_time", "end_time", "use_csv", "write_csv"},
     check_right |-> FALSE, ivl_check |-> "strict", check_dates |-> FALSE, check_venue |-> FALSE,
     required |-> {"root", "exp", "start_date", "end_date", "ivl", "use_csv"}, bools |-> {"use_csv"},
     if_truthy |-> {"start_time", "end_time"}, if_not_none |-> {},
     root_from |-> "root", shaper |-> "_process_response", columns |-> "format",
     datatype |-> "bulk_option_ohlc", ident |-> "root_exp"]

get_bulk_open_interest ==
    [name |-> "get_bulk_open_interest", cls |-> "options", endpoint |-> "/v2/bulk_hist/option/open_interest",
     sig |-> {"root", "exp", "start_date", "end_date", "use_csv", "write_csv"},
     check_right |-> FALSE, ivl_check |-> "none", check_dates |-> FALSE, check_venue |-> FALSE,
     required |-> {"root", "exp", "start_date", "end_date", "use_csv"}, bools |-> {"use_csv"},
     if_truthy |-> {}, if_not_none |-> {},
     root_from |-> "root", shaper |-> "_process_response", columns |-> "format",
     datatype |-> "bulk_option_open_interest", ident |-> "root_exp"]

get_bulk_trade ==
    [name |-> "get_bulk_trade", cls |-> "options", endpoint |-> "/v2/bulk_hist/option/trade",
     sig |-> {"root", "exp", "start_date", "end_date", "ivl", "start_time", "end_time", "use_csv", "write_csv"},
     check_right |-> FALSE, ivl_check |-> "optional", check_dates |-> FALSE, check_venue |-> FALSE,
     required |-> {"root", "exp", "start_date", "end_date", "use_csv"}, bools |-> {"use_csv"},
     if_truthy |-> {"start_time", "end_time"}, if_not_none |-> {"ivl"},
     root_from |-> "root", shaper |-> "_process_response", columns |-> "format",
     datatype |-> "bulk_option_trade", ident |-> "root_exp"]

get_bulk_trade_quote ==
    [name |-> "get_bulk_trade_quote", cls |-> "options", endpoint |-> "/v2/bulk_hist/option/trade_quote",
     sig |-> {"root", "exp", "start_date", "end_date", "exclusive", "use_csv", "write_csv"},
     check_right |-> FALSE, ivl_check |-> "none", check_dates |-> FALSE, check_venue |-> FALSE,
     required |-> {"root", "exp", "start_date", "end_date", "exclusive", "use_csv"}, bools |-> {"exclusive", "use_csv"},
     if_truthy |-> {}, if_not_none |-> {},
     root_from |-> "root", shaper |-> "_process_response", columns |-> "format",
     datatype |-> "bulk_option_trade_quote", ident |-> "root_exp"]

get_bulk_eod_greeks ==
    [name |-> "get_bulk_eod_greeks", cls |-> "options", endpoint |-> "/v2/bulk_hist/option/eod_greeks",
     sig |-> {"root", "exp", "start_date", "end_date", "annual_div", "rate", "rate_value", "under_price", "use_csv", "write_csv"},
     check_right |-> FALSE, ivl_check |-> "none", check_dates |-> FALSE, check_venue |-> FALSE,
     required |-> {"root", "exp", "start_date", "end_date", "use_csv"}, bools |-> {"use_csv"},
     if_truthy |-> {}, if_not_none |-> {"annual_div", "rate", "rate_value", "under_price"},
     root_from |-> "root", shaper |-> "_process_response", columns |-> "format",
     datatype |-> "bulk_option_eod_greeks", ident |-> "root_exp"]

get_bulk_trade_greeks ==
    [name |-> "get_bulk_trade_greeks", cls |-> "options", endpoint |-> "/v2/bulk_hist/option/trade_greeks",
     sig |-> {"root", "exp", "start_date", "end_date", "annual_div", "rate", "rate_value", "use_csv", "perf_boost", "under_price", "write_csv"},
     check_right |-> FALSE, ivl_check |-> "none", check_dates |-> FALSE, check_venue |-> FALSE,
     required |-> {"root", "exp", "start_date", "end_date", "use_csv", "perf_boost"}, bools |-> {"use_csv", "perf_boost"},
     if_truthy |-> {}, if_not_none |-> {"annual_div", "rate", "rate_value", "under_price"},
     root_from |-> "root", shaper |-> "_process_response", columns |-> "format",
     datatype |-> "bulk_option_trade_greeks", ident |-> "root_exp"]

get_quote_snapshot ==
    [name |-> "get_quote_snapshot", cls |-> "options", endpoint |-> "/v2/snapshot/option/quote",
     sig |-> {"root", "exp", "right", "strike", "use_csv", "write_csv"},
     check_right |-> TRUE, ivl_check |-> "none", check_dates |-> FALSE, check_venue |-> FALSE,
     required |-> {"root", "exp", "right", "strike", "use_csv"}, bools |-> {"use_csv"},
     if_truthy |-> {}, if_not_none |-> {},
     root_from |-> "root", shaper |-> "_process_response", columns |-> "format",
     datatype |-> "option_quote_snapshot", ident |-> "contract"]

get_ohlc_snapshot ==
    [name |-> "get_ohlc_snapshot", cls |-> "options", endpoint |-> "/v2/snapshot/option/ohlc",
     sig |-> {"root", "exp", "right", "strike", "use_csv", "write_csv"},
     check_right |-> TRUE, ivl_check |-> "none", check_dates |-> FALSE, check_venue |-> FALSE,
     required |-> {"root", "exp", "right", "strike", "use_csv"}, bools |-> {"use_csv"},
     if_truthy |-> {}, if_not_none |-> {},
     root_from |-> "root", shaper |-> "_process_response", columns |-> "format",
     datatype |-> "option_ohlc_snapshot", ident |-> "contract"]

get_trade_snapshot ==
    [name |-> "get_trade_snapshot", cls |-> "options", endpoint |-> "/v2/snapshot/option/trade",
     sig |-> {"root", "exp", "right", "strike", "use_csv", "write_csv"},
     check_right |-> TRUE, ivl_check |-> "none", check_dates |-> FALSE, check_venue |-> FALSE,
     required |-> {"root", "exp", "right", "strike", "use_csv"}, bools |-> {"use_csv"},
     if_truthy |-> {}, if_not_none |-> {},
     root_from |-> "root", shaper |-> "_process_response", columns |-> "format",
     datatype |-> "option_trade_snapshot", ident |-> "contract"]

get_trade_open_interest_snapshot ==
    [name |-> "get_trade_open_interest_snapshot", cls |-> "options", endpoint |-> "/v2/snapshot/option/open_interest",
     sig |-> {"root", "exp", "right", "strike", "use_csv", "write_csv"},
     check_right |-> TRUE, ivl_check |-> "none", check_dates |-> FALSE, check_venue |-> FALSE,
     required |-> {"root", "exp", "right", "strike", "use_csv"}, bools |-> {"use_csv"},
     if_truthy |-> {}, if_not_none |-> {},
     root_from |-> "root", shaper |-> "_process_response", columns |-> "format",
     datatype |-> "option_open_interest_snapshot", ident |-> "contract"]

get_bulk_quotes_snapshot ==
    [name |-> "get_bulk_quotes_snapshot", cls |-> "options", endpoint |-> "/v2/bulk_snapshot/option/quote",
     sig |-> {"root", "exp", "use_csv", "write_csv"},
     check_right |-> FALSE, ivl_check |-> "none", check_dates |-> FALSE, check_venue |-> FALSE,
     required |-> {"root", "exp", "use_csv"}, bools |-> {"use_csv"},
     if_truthy |-> {}, if_not_none |-> {},
     root_from |-> "root", shaper |-> "_process_response", columns |-> "format",
     datatype |-> "bulk_option_quotes_snapshot", ident |-> "root_exp"]

get_bulk_open_interest_snapshot ==
    [name |-> "get_bulk_open_interest_snapshot", cls |-> "options", endpoint |-> "/v2/bulk_snapshot/option/open_interest",
     sig |-> {"root", "exp", "use_csv", "write_csv"},
     check_right |-> FALSE, ivl_check |-> "none", check_dates |-> FALSE, check_venue |-> FALSE,
     required |-> {"root", "exp", "use_csv"}, bools |-> {"use_csv"},
     if_truthy |-> {}, if_not_none |-> {},
     root_from |-> "root", shaper |-> "_process_response", columns |-> "format",
     datatype |-> "bulk_option_open_interest_snapshot", ident |-> "root_exp"]

get_bulk_ohlc_snapshot ==
    [name |-> "get_bulk_ohlc_snapshot", cls |-> "options", endpoint |-> "/v2/bulk_snapshot/option/ohlc",
     sig |-> {"root", "exp", "use_csv", "write_csv"},
     check_right |-> FALSE, ivl_check |-> "none", check_dates |-> FALSE, check_venue |-> FALSE,
     required |-> {"root", "exp", "use_csv"}, bools |-> {"use_csv"},
     if_truthy |-> {}, if_not_none |-> {},
     root_from |-> "root", shaper |-> "_process_response", columns |-> "format",
     datatype |-> "bulk_option_ohlc_snapshot", ident |-> "root_exp"]

get_bulk_greeks_snapshot ==
    [name |-> "get_bulk_greeks_snapshot", cls |-> "options", endpoint |-> "/v2/bulk_snapshot/option/greeks",
     sig |-> {"root", "exp", "annual_div", "rate", "rate_value", "under_price", "use_csv", "write_csv"},
     check_right |-> FALSE, ivl_check |-> "none", check_dates |-> FALSE, check_venue |-> FALSE,
     required |-> {"root", "exp", "use_csv"}, bools |-> {"use_csv"},
     if_truthy |-> {}, if_not_none |-> {"annual_div", "rate", "rate_value", "under_price"},
     root_from |-> "root", shaper |-> "_process_response", columns |-> "format",
     datatype |-> "bulk_option_greeks_snapshot", ident |-> "root_exp"]

get_bulk_greeks_second_order_snapshot ==
    [name |-> "get_bulk_greeks_second_order_snapshot", cls |-> "options", endpoint |-> "/v2/bulk_snapshot/option/greeks_second_order",
     sig |-> {"root", "exp", "annual_div", "rate", "rate_value", "under_price", "use_csv", "write_csv"},
     check_right |-> FALSE, ivl_check |-> "none", check_dates |-> FALSE, check_venue |-> FALSE,
     required |-> {"root", "exp", "use_csv"}, bools |-> {"use_csv"},
     if_truthy |-> {}, if_not_none |-> {"annual_div", "rate", "rate_value", "under_price"},
     root_from |-> "root", shaper |-> "_process_response", columns |-> "format",
     datatype |-> "bulk_option_greeks_second_order_snapshot", ident |-> "root_exp"]

get_bulk_greeks_third_order_snapshot ==
    [name |-> "get_bulk_greeks_third_order_snapshot", cls |-> "options", endpoint |-> "/v2/bulk_snapshot/option/greeks_third_order",
     sig |-> {"root", "exp", "annual_div", "rate", "rate_value", "under_price", "use_csv", "write_csv"},
     check_right |-> FALSE, ivl_check |-> "none", check_dates |-> FALSE, check_venue |-> FALSE,
     required |-> {"root", "exp", "use_csv"}, bools |-> {"use_csv"},
     if_truthy |-> {}, if_not_none |-> {"annual_div", "rate", "rate_value", "under_price"},
     root_from |-> "root", shaper |-> "_process_response", columns |-> "format",
     datatype |-> "bulk_option_greeks_third_order_snapshot", ident |-> "root_exp"]

StocksSnapshot_get_quotes ==
    [name |-> "get_quotes", cls |-> "snapshot", endpoint |-> "/v2/snapshot/stock/quote",
     sig |-> {"symbol", "venue", "write_csv"},
     check_right |-> FALSE, ivl_check |-> "none", check_dates |-> FALSE, check_venue |-> TRUE,
     required |-> {"root"}, bools |-> {},
     if_truthy |-> {"venue"}, if_not_none |-> {},
     root_from |-> "symbol", shaper |-> "_process_response", columns |-> "format",
     datatype |-> "quotes", ident |-> "symbol"]

StocksSnapshot_get_bulk_quotes ==
    [name |-> "get_bulk_quotes", cls |-> "snapshot", endpoint |-> "/v2/snapshot/stock/quote",
     sig |-> {"symbols", "venue", "write_csv"},
     check_right |-> FALSE, ivl_check |-> "none", check_dates |-> FALSE, check_venue |-> TRUE,
     required |-> {"root"}, bools |-> {},
     if_truthy |-> {"venue"}, if_not_none |-> {},
     root_from |-> "symbols", shaper |-> "_process_response", columns |-> "format",
     datatype |-> "bulk_quotes", ident |-> "symbols"]

StocksSnapshot_get_ohlc ==
    [name |-> "get_ohlc", cls |-> "snapshot", endpoint |-> "/v2/snapshot/stock/ohlc",
     sig |-> {"symbol", "write_csv"},
     check_right |-> FALSE, ivl_check |-> "none", check_dates |-> FALSE, check_venue |-> FALSE,
     required |-> {"root"}, bools |-> {},
     if_truthy |-> {}, if_not_none |-> {},
     root_from |-> "symbol", shaper |-> "_process_response", columns |-> "format",
     datatype |-> "ohlc", ident |-> "symbol"]

StocksSnapshot_get_bulk_ohlc ==
    [name |-> "get_bulk_ohlc", cls |-> "snapshot", endpoint |-> "/v2/snapshot/stock/ohlc",
     sig |-> {"symbols", "write_csv"},
     check_right |-> FALSE, ivl_check |-> "none", check_dates |-> FALSE, check_venue |-> FALSE,
     required |-> {"root"}, bools |-> {},
     if_truthy |-> {}, if_not_none |-> {},
     root_from |-> "symbols", shaper |-> "_process_response", columns |-> "format",
     datatype |-> "bulk_ohlc", ident |-> "symbols"]

StocksSnapshot_get_trades ==
    [name |-> "get_trades", cls |-> "snapshot", endpoint |-> "/v2/snapshot/stock/trade",
     sig |-> {"symbol", "write_csv"},
     check_right |-> FALSE, ivl_check |-> "none", check_dates |-> FALSE, check_venue |-> FALSE,
     required |-> {"root"}, bools |-> {},
     if_truthy |-> {}, if_not_none |-> {},
     root_from |-> "symbol", shaper |-> "_process_response", columns |-> "format",
     datatype |-> "trades", ident |-> "symbol"]

StocksHistorical_get_eod_report ==
    [name |-> "get_eod_report", cls |-> "historical", endpoint |-> "/v2/hist/stock/eod",
     sig |-> {"symbol", "start_date", "end_date"},
     check_right |-> FALSE, ivl_check |-> "none", check_dates |-> TRUE, check_venue |-> FALSE,
     required |-> {"root", "start_date", "end_date"}, bools |-> {},
     if_truthy |-> {}, if_not_none |-> {},
     root_from |-> "symbol", shaper |-> "inline", columns |-> "format",
     datatype |-> "", ident |-> "none"]

StocksHistorical_get_quotes ==
    [name |-> "get_quotes", cls |-> "historical", endpoint |-> "/v2/hist/stock/quote",
     sig |-> {"symbol", "start_date", "end_date", "interval"},
     check_right |-> FALSE, ivl_check |-> "none", check_dates |-> FALSE, check_venue |-> FALSE,
     required |-> {"root", "start_date", "end_date", "ivl"}, bools |-> {},
     if_truthy |-> {}, if_not_none |-> {},
     root_from |-> "symbol", shaper |-> "inline", columns |-> "format",
     datatype |-> "", ident |-> "none"]

StocksHistorical_get_ohlc ==
    [name |-> "get_ohlc", cls |-> "historical", endpoint |-> "/v2/hist/stock/ohlc",
     sig |-> {"symbol", "start_date", "end_date", "interval"},
     check_right |-> FALSE, ivl_check |-> "none", check_dates |-> FALSE, check_venue |-> FALSE,
     required |-> {"root", "start_date", "end_date", "ivl"}, bools |-> {},
     if_truthy |-> {}, if_not_none |-> {},
     root_from |-> "symbol", shaper |-> "inline", columns |-> "fixed",
     datatype |-> "", ident |-> "none"]

StocksHistorical_get_trades ==
    [name |-> "get_trades", cls |-> "historical", endpoint |-> "/v2/hist/stock/trade",
     sig |-> {"symbol", "start_date", "end_date"},
     check_right |-> FALSE, ivl_check |-> "none", check_dates |-> FALSE, check_venue |-> FALSE,
     required |-> {"root", "start_date", "end_date"}, bools |-> {},
     if_truthy |-> {}, if_not_none |-> {},
     root_from |-> "symbol", shaper |-> "inline", columns |-> "format",
     datatype |-> "", ident |-> "none"]

StocksHistorical_get_trade_quote ==
    [name |-> "get_trade_quote", cls |-> "historical", endpoint |-> "/v2/hist/stock/trade_quote",
     sig |-> {"symbol", "start_date", "end_date"},
     check_right |-> FALSE, ivl_check |-> "none", check_dates |-> FALSE, check_venue |-> FALSE,
     required |-> {"root", "start_date", "end_date"}, bools |-> {},
     if_truthy |-> {}, if_not_none |-> {},
     root_from |-> "symbol", shaper |-> "inline", columns |-> "format",
     datatype |-> "", ident |-> "none"]

StocksHistorical_get_splits ==
    [name |-> "get_splits", cls |-> "historical", endpoint |-> "/v2/hist/stock/split",
     sig |-> {"symbol", "start_date", "end_date"},
     check_right |-> FALSE, ivl_check |-> "none", check_dates |-> FALSE, check_venue |-> FALSE,
     required |-> {"root", "start_date", "end_date"}, bools |-> {},
     if_truthy |-> {}, if_not_none |-> {},
     root_from |-> "symbol", shaper |-> "inline", columns |-> "format",
     datatype |-> "", ident |-> "none"]

StocksHistorical_get_dividends ==
    [name |-> "get_dividends", cls |-> "historical", endpoint |-> "/v2/hist/stock/dividend",
     sig |-> {"symbol", "start_date", "end_date"},
     check_right |-> FALSE, ivl_check |-> "none", check_dates |-> FALSE, check_venue |-> FALSE,
     required |-> {"root", "start_date", "end_date"}, bools |-> {},
     if_truthy |-> {}, if_not_none |-> {},
     root_from |-> "symbol", shaper |-> "inline", columns |-> "format",
     datatype |-> "", ident |-> "none"]

OptionsEntries == {
    get_quote_at_time, get_trade_at_time, get_bulk_quote_at_time,
    get_bulk_trade_at_time, get_historical_eod_report, get_historical_quotes,
    get_historical_ohlc, get_historical_open_interest, get_historical_trades,
    get_historical_trade_quote, get_historical_implied_volatility,
    get_historical_greeks, get_historical_greeks_second_order,
    get_historical_greeks_third_order, get_historical_all_greeks,
    get_historical_trade_greeks, get_historical_trade_greeks_second_order,
    get_historical_trade_greeks_third_order, get_bulk_eod, get_bulk_quote,
    get_bulk_ohlc, get_bulk_open_interest, get_bulk_trade,
    get_bulk_trade_quote, get_bulk_eod_greeks, get_bulk_trade_greeks,
    get_quote_snapshot, get_ohlc_snapshot, get_trade_snapshot,
    get_trade_open_interest_snapshot, get_bulk_quotes_snapshot,
    get_bulk_open_interest_snapshot, get_bulk_ohlc_snapshot,
    get_bulk_greeks_snapshot, get_bulk_greeks_second_order_snapshot,
    get_bulk_greeks_third_order_snapshot}

StocksSnapshotEntries == {
    StocksSnapshot_get_quotes, StocksSnapshot_get_bulk_quotes,
    StocksSnapshot_get_ohlc, StocksSnapshot_get_bulk_ohlc,
    StocksSnapshot_get_trades}

StocksHistoricalEntries == {
    StocksHistorical_get_eod_report, StocksHistorical_get_quotes,
    StocksHistorical_get_ohlc, StocksHistorical_get_trades,
    StocksHistorical_get_trade_quote, StocksHistorical_get_splits,
    StocksHistorical_get_dividends}

\* the columns literal of ThetaDataStocksHistorical.get_ohlc
OhlcColumns == <<"ms_of_day", "open", "high", "low", "close", "volume", "count", "date">>

-----------------------------------------------------------------------------
(* A call of a catalog entry *)

PyChars(cs) == [t |-> "str", chars |-> cs]
PyList(xs) == [t |-> "list", v |-> xs]
\* the value of a parameter the entry does not have
NotAnArg == [t |-> "absent"]

RECURSIVE JoinWith(_, _)
JoinWith(sep, xs) ==
    IF xs = <<>> THEN ""
    ELSE IF Len(xs) = 1 THEN xs[1]
    ELSE xs[1] \o sep \o JoinWith(sep, Tail(xs))

\* str(x).lower() of a bool
LowerBool(b) == PyStr(IF b THEN "true" ELSE "false")

\* The first check of the entry that fails: "right", "ivl", "venue" (these
\* raise ValueError), "dates" (returns None), or "ok".
ValidateStartOnly(e, a) ==
    IF e.check_right /\ ~is_valid_right(a.right.v) THEN "right"
    ELSE IF e.ivl_check = "strict" /\ ~is_valid_ivl(a.ivl.v) THEN "ivl"
    ELSE IF e.ivl_check = "zero_ok" /\ a.ivl.v # 0 /\ ~is_valid_ivl(a.ivl.v) THEN "ivl"
    ELSE IF e.ivl_check = "optional" /\ a.ivl # PyNone /\ ~is_valid_ivl(a.ivl.v) THEN "ivl"
    ELSE IF e.check_venue /\ PyTruthy(a.venue) /\ a.venue.v \notin {"nqb", "utp_cta"} THEN "venue"
    ELSE IF e.check_dates /\ ~is_valid_date_format(a.start_date.chars) THEN "dates"
    ELSE "ok"
Validate(e, a) ==
    IF e.check_right /\ ~is_valid_right(a.right.v) THEN "right"
    ELSE IF e.ivl_check = "strict" /\ ~is_valid_ivl(a.ivl.v) THEN "ivl"
    ELSE IF e.ivl_check = "zero_ok" /\ a.ivl.v # 0 /\ ~is_valid_ivl(a.ivl.v) THEN "ivl"
    ELSE IF e.ivl_check = "optional" /\ a.ivl # PyNone /\ ~is_valid_ivl(a.ivl.v) THEN "ivl"
    ELSE IF e.check_venue /\ PyTruthy(a.venue) /\ a.venue.v \notin {"nqb", "utp_cta"} THEN "venue"
    ELSE IF e.check_dates /\ ~(is_valid_date_format(a.start_date.chars)
                               /\ is_valid_date_format(a.end_date.chars)) THEN "dates"
    ELSE "ok"

\* the params dict handed to send_request
ParamKeys(e, a) ==
    e.required \cup {k \in e.if_truthy : PyTruthy(a[k])}
               \cup {k \in e.if_not_none : a[k] # PyNone}

ParamValue(e, a, k) ==
    IF k \in e.bools THEN LowerBool(a[k])
    ELSE IF k = "root" /\ e.root_from = "symbol" THEN a.symbol
    ELSE IF k = "root" /\ e.root_from = "symbols" THEN PyStr(JoinWith(",", a.symbols.v))
    ELSE IF k = "ivl" /\ "interval" \in e.sig THEN a.interval
    ELSE a[k]

BuildParams(e, a) == [k \in ParamKeys(e, a) |-> ParamValue(e, a, k)]

\* the identifier handed to _process_response
Identifier(e, a) ==
    CASE e.ident = "contract" ->
            a.root.v \o "_" \o Join(a.exp.chars) \o "_" \o ToString(a.strike.v)
                     \o "_" \o a.right.v
      [] e.ident = "root_exp" -> a.root.v \o "_" \o Join(a.exp.chars)
      [] e.ident = "symbol" -> a.symbol.v
      [] e.ident = "symbols" -> JoinWith("_", a.symbols.v)
      [] OTHER -> ""

\* "if response and self.use_df: ... else: return response" of
\* stocks_historical.py: no CSV is written
InlineShape(e, response, usedf, dir, fs) ==
    IF PyTruthy(response) /\ usedf
    THEN IF \/ e.columns = "format" /\ "header" \notin DOMAIN response.v
            \/ e.columns = "format" /\ "format" \notin DOMAIN response.v.header
            \/ "response" \notin DOMAIN response.v
         THEN [exc |-> "KeyError", ret |-> PyNone, dir |-> dir, files |-> fs]
         ELSE LET columns == IF e.columns = "format" THEN response.v.header.format
                             ELSE OhlcColumns
                  made == DataFrame(response.v.response, columns) IN
              [exc |-> made.exc, ret |-> made.df, dir |-> dir, files |-> fs]
    ELSE [exc |-> "none", ret |-> response, dir |-> dir, files |-> fs]

ShapeRawOnUseCsv(e, a, response, usedf, dir, fs) ==
    IF e.shaper = "inline"
    THEN InlineShape(e, response, usedf, dir, fs)
    ELSE IF a.use_csv
    THEN [exc |-> "none", ret |-> response, dir |-> dir, files |-> fs]
    ELSE _process_response(response, a.write_csv, e.datatype, Identifier(e, a), dir, fs)
Shape(e, a, response, usedf, dir, fs) ==
    IF e.shaper = "inline"
    THEN InlineShape(e, response, usedf, dir, fs)
    ELSE _process_response(response, a.write_csv, e.datatype, Identifier(e, a), dir, fs)

NetNone == [kind |-> "not called", text |-> "", body |-> NoBody]

\* The whole method: checks, params, send_request, shaping.  The record says
\* what the call did: the file system it found (before), the requests it
\* sent, what send_request returned, how
\* the call ended (outcome "return" with ret, or "raise" with exc) and the
\* file system it left.
RunEntryRetry(e, a, net, usedf, dir, fs) ==
    LET v == Validate(e, a)
        params == BuildParams(e, a)
        tr == send_request(e.endpoint, params, net)
        sh == Shape(e, a, tr.ret, usedf, dir, fs)
        nothing == [entry |-> [cls |-> e.cls, name |-> e.name], args |-> a, before |-> [dir |-> dir, files |-> fs],
                    validated |-> v, sent |-> <<>>,
                    net |-> NetNone, response |-> PyNone, logged |-> "",
                    outcome |-> "return", exc |-> "none", ret |-> PyNone,
                    dir |-> dir, files |-> fs]
        request == [endpoint |-> e.endpoint, params |-> params]
        asked == [nothing EXCEPT !.sent = IF tr.ret = PyNone THEN <<request, request>>
                                          ELSE <<request>>,
                                 !.net = net, !.response = tr.ret, !.logged = tr.logged]
    IN  IF v \in {"right", "ivl", "venue"}
        THEN [nothing EXCEPT !.outcome = "raise", !.exc = "ValueError"]
        ELSE IF v = "dates" THEN nothing
        ELSE IF tr.exc # "none"
        THEN [asked EXCEPT !.outcome = "raise", !.exc = tr.exc]
        ELSE IF sh.exc # "none"
        THEN [asked EXCEPT !.outcome = "raise", !.exc = sh.exc]
        ELSE [asked EXCEPT !.ret = sh.ret, !.dir = sh.dir, !.files = sh.files]
RunEntry(e, a, net, usedf, dir, fs) ==
    LET v == Validate(e, a)
        params == BuildParams(e, a)
        tr == send_request(e.endpoint, params, net)
        sh == Shape(e, a, tr.ret, usedf, dir, fs)
        nothing == [entry |-> [cls |-> e.cls, name |-> e.name], args |-> a, before |-> [dir |-> dir, files |-> fs],
                    validated |-> v, sent |-> <<>>,
                    net |-> NetNone, response |-> PyNone, logged |-> "",
                    outcome |-> "return", exc |-> "none", ret |-> PyNone,
                    dir |-> dir, files |-> fs]
        asked == [nothing EXCEPT !.sent = <<[endpoint |-> e.endpoint, params |-> params]>>,
                                 !.net = net, !.response = tr.ret, !.logged = tr.logged]
    IN  IF v \in {"right", "ivl", "venue"}
        THEN [nothing EXCEPT !.outcome = "raise", !.exc = "ValueError"]
        ELSE IF v = "dates" THEN nothing
        ELSE IF tr.exc # "none"
        THEN [asked EXCEPT !.outcome = "raise", !.exc = tr.exc]
        ELSE IF sh.exc # "none"
        THEN [asked EXCEPT !.outcome = "raise", !.exc = sh.exc]
        ELSE [asked EXCEPT !.ret = sh.ret, !.dir = sh.dir, !.files = sh.files]

Report(r) == [k \in DOMAIN r \ {"dir", "files"} |-> r[k]]

\* a call that passes keyword arguments: a keyword the method does not declare
\* makes Python raise TypeError while binding the arguments, before the body
\* of the method runs (net is kept as the answer the terminal had ready)
CallKeywords(e, a, kwargs, net, usedf, dir, fs) ==
    LET r == RunEntry(e, a, net, usedf, dir, fs) IN
    IF kwargs \subseteq e.sig THEN r
    ELSE [r EXCEPT !.validated = "ok", !.sent = <<>>, !.net = net,
                   !.response = PyNone, !.logged = "", !.outcome = "raise",
                   !.exc = "TypeError", !.ret = PyNone, !.dir = dir, !.files = fs]

-----------------------------------------------------------------------------
(* Inputs *)

MaxCalls == 1
MaxDateLen == 9

GoodDate == <<"2", "0", "2", "4", "0", "1", "0", "1">>
Day32Date == <<"2", "0", "2", "4", "0", "1", "3", "2">>
Month13Date == <<"2", "0", "2", "4", "1", "3", "0", "1">>
HyphenDate == <<"2", "0", "2", "4", "-", "0", "1", "-", "0", "1">>
ShortDate == <<"2", "0", "2", "4", "0", "1">>
GoodExp == <<"2", "0", "2", "4", "0", "1", "1", "9">>

\* response bodies the terminal may send with a 2xx status
TextRows == <<
    <<PyStr("20240101"), PyStr("100.0")>>,
    <<PyStr("20240102"), PyStr("101.5")>> >>
NumberRows == <<
    <<PyInt(34200000), PyInt(10), PyInt(100), PyStr("C")>>,
    <<PyInt(34200001), PyNone, PyFloat(100, 5), PyNone>> >>
Envelope(format, rows) == [header |-> [format |-> format], response |-> rows]
TextEnvelope == Envelope(<<"date", "open">>, TextRows)
EmptyEnvelope == Envelope(<<"date", "open">>, <<>>)
NumberEnvelope == Envelope(<<"ms_of_day", "size", "price", "right">>, NumberRows)
NoHeaderBody == [response |-> TextRows]
NoResponseBody == [header |-> [format |-> <<"date", "open">>]]

Envelopes == {TextEnvelope, EmptyEnvelope, NumberEnvelope}
Bodies == Envelopes \cup {EmptyDict, NoHeaderBody, NoResponseBody}

Nets == {NetConnectionError, NetHTTPError, NetJSONDecodeError}
            \cup {NetOk(b) : b \in Bodies}

\* the numbers an interval string is written from (900000 is the default)
IntervalNumbers == {50, 900000}

\* The values each parameter is drawn from.  Inputs: arguments that pass
\* every check, against everything the terminal may answer.
Inputs ==
    [root |-> {PyStr("AAPL")},
     symbol |-> {PyStr("AAPL")},
     symbols |-> {PyList(<<"AAPL", "MSFT">>)},
     exp |-> {PyChars(GoodExp)},
     strike |-> {PyInt(170000)},
     right |-> {PyStr("C")},
     start_date |-> {PyChars(GoodDate)},
     end_date |-> {PyChars(Day32Date)},
     ivl |-> {PyInt(MinIvl)},
     interval |-> {PyStr(ToString(900000))},
     venue |-> {PyNone, PyStr("nqb")},
     start_time |-> {PyNone},
     end_time |-> {PyNone},
     annual_div |-> {PyNone},
     rate |-> {PyNone},
     rate_value |-> {PyNone},
     under_price |-> {PyNone},
     rth |-> {TRUE},
     exclusive |-> {FALSE},
     perf_boost |-> {FALSE},
     use_csv |-> {FALSE},
     write_csv |-> BOOLEAN]

\* ValidateInputs: arguments inside and outside what the checks accept,
\* against a terminal that answers.
ValidateInputs ==
    [Inputs EXCEPT
        !.right = {PyStr("C"), PyStr("P"), PyStr("c")},
        !.start_date = {PyChars(GoodDate), PyChars(HyphenDate)},
        !.end_date = {PyChars(GoodDate), PyChars(ShortDate)},
        !.ivl = {PyInt(0), PyInt(MinIvl - 1), PyInt(MinIvl), PyInt(MaxIvl + 1)},
        !.interval = {PyStr(ToString(n)) : n \in IntervalNumbers},
        !.venue = {PyNone, PyStr("utp_cta"), PyStr("nyse")},
        !.write_csv = {TRUE}]

ValidateNets == {NetOk(TextEnvelope)}

\* AttemptInputs: calls that pass or fail a check, against a terminal that is
\* down, refuses, or answers.
AttemptInputs ==
    [Inputs EXCEPT
        !.right = {PyStr("C"), PyStr("c")},
        !.start_date = {PyChars(GoodDate), PyChars(HyphenDate)},
        !.ivl = {PyInt(MinIvl - 1), PyInt(MinIvl)},
        !.venue = {PyNone, PyStr("nyse")},
        !.write_csv = {FALSE}]

\* ParamInputs: optional parameters left out, given empty and given a value,
\* and both values of the two CSV flags.
ParamInputs ==
    [Inputs EXCEPT
        !.start_time = {PyNone, PyStr(""), PyStr("34200000")},
        !.end_time = {PyNone, PyStr("57600000")},
        !.venue = {PyNone, PyStr(""), PyStr("nqb"), PyStr("nyse")},
        !.annual_div = {PyNone, PyInt(0)},
        !.rate = {PyNone, PyStr("SOFR")},
        !.rate_value = {PyNone, PyFloat(5, 3)},
        !.under_price = {PyNone, PyInt(0)},
        !.use_csv = BOOLEAN,
        !.write_csv = BOOLEAN]

ParamNets == {NetOk(TextEnvelope)}

AttemptNets == {NetConnectionError, NetHTTPError, NetOk(EmptyDict), NetOk(TextEnvelope)}

BoolParams == {"rth", "exclusive", "perf_boost", "use_csv", "write_csv"}

\* the values of parameter k in a call of entry e: an optional ivl may be None
Dom(e, D, k) ==
    IF k \notin e.sig THEN (IF k \in BoolParams THEN {FALSE} ELSE {NotAnArg})
    ELSE IF k = "ivl" /\ e.ivl_check = "optional" THEN D[k] \cup {PyNone}
    ELSE D[k]

ArgsOf(e, D) ==
    {[root |-> a1, symbol |-> a2, symbols |-> a3, exp |-> a4, strike |-> a5,
      right |-> a6, start_date |-> a7, end_date |-> a8, ivl |-> a9,
      interval |-> a10, venue |-> a11, start_time |-> a12, end_time |-> a13,
      annual_div |-> a14, rate |-> a15, rate_value |-> a16, under_price |-> a17,
      rth |-> a18, exclusive |-> a19, perf_boost |-> a20, use_csv |-> a21,
      write_csv |-> a22] :
        a1 \in Dom(e, D, "root"), a2 \in Dom(e, D, "symbol"),
        a3 \in Dom(e, D, "symbols"), a4 \in Dom(e, D, "exp"),
        a5 \in Dom(e, D, "strike"), a6 \in Dom(e, D, "right"),
        a7 \in Dom(e, D, "start_date"), a8 \in Dom(e, D, "end_date"),
        a9 \in Dom(e, D, "ivl"), a10 \in Dom(e, D, "interval"),
        a11 \in Dom(e, D, "venue"), a12 \in Dom(e, D, "start_time"),
        a13 \in Dom(e, D, "end_time"), a14 \in Dom(e, D, "annual_div"),
        a15 \in Dom(e, D, "rate"), a16 \in Dom(e, D, "rate_value"),
        a17 \in Dom(e, D, "under_price"), a18 \in Dom(e, D, "rth"),
        a19 \in Dom(e, D, "exclusive"), a20 \in Dom(e, D, "perf_boost"),
        a21 \in Dom(e, D, "use_csv"), a22 \in Dom(e, D, "write_csv")}

\* a file an earlier run left in output_dir
OldCsv == << <<"date", "open">>, <<"20231229", "99.0">> >>
OldFiles == [f \in {"option_quote_AAPL_20240119_170000_C.csv"} |-> OldCsv]
NoFiles == [f \in {} |-> OldCsv]

-----------------------------------------------------------------------------
(* The state machine *)

NoEntry ==
    [name |-> "none", cls |-> "none", endpoint |-> "", sig |-> {},
     check_right |-> FALSE, ivl_check |-> "none", check_dates |-> FALSE,
     check_venue |-> FALSE, required |-> {}, bools |-> {}, if_truthy |-> {},
     if_not_none |-> {}, root_from |-> "root", shaper |-> "none",
     columns |-> "format", datatype |-> "", ident |-> "none"]

NoCall ==
    [entry |-> [cls |-> NoEntry.cls, name |-> NoEntry.name],
     args |-> CHOOSE a \in ArgsOf(NoEntry, Inputs) : TRUE,
     before |-> [dir |-> FALSE, files |-> NoFiles], validated |-> "ok",
     sent |-> <<>>, net |-> NetNone, response |-> PyNone,
     logged |-> "", outcome |-> "none", exc |-> "none", ret |-> PyNone]

\* the catalogue entry the last call ran
Entries == OptionsEntries \cup StocksSnapshotEntries \cup StocksHistoricalEntries
Entry == IF last.outcome = "none" THEN NoEntry
         ELSE CHOOSE e \in Entries : e.cls = last.entry.cls /\ e.name = last.entry.name

NoProbe == [fn |-> "none", arg |-> PyNone, done |-> FALSE, result |-> FALSE]

\* the state after the client is constructed; the output directory may or
\* may not exist yet
Init ==
    /\ client \in {"options", "snapshot", "historical"}
    /\ use_df \in (IF client = "historical" THEN BOOLEAN ELSE {TRUE})
    /\ dirExists \in BOOLEAN
    /\ files = (IF dirExists THEN OldFiles ELSE NoFiles)
    /\ ncalls = 0
    /\ last = NoCall
    /\ writes = <<>>
    /\ probe = NoProbe
    /\ StreamOff

\* one call of entry e with arguments a, the terminal answering with net
Call(e, a, net) ==
    LET r == RunEntry(e, a, net, use_df, dirExists, files) IN
    /\ last' = Report(r)
    /\ dirExists' = r.dir
    /\ files' = r.files
    /\ ncalls' = ncalls + 1
    /\ UNCHANGED <<client, use_df, probe, writes, streamVars>>

OptionsCall(D, answers) ==
    /\ client = "options"
    /\ ncalls < MaxCalls
    /\ \E e \in OptionsEntries : \E a \in ArgsOf(e, D), net \in answers : Call(e, a, net)

StocksSnapshotCall(D, answers) ==
    /\ client = "snapshot"
    /\ ncalls < MaxCalls
    /\ \E e \in StocksSnapshotEntries : \E a \in ArgsOf(e, D), net \in answers :
          Call(e, a, net)

StocksHistoricalCall(D, answers) ==
    /\ client = "historical"
    /\ ncalls < MaxCalls
    /\ \E e \in StocksHistoricalEntries : \E a \in ArgsOf(e, D), net \in answers :
          Call(e, a, net)

Next ==
    \/ OptionsCall(Inputs, Nets)
    \/ StocksSnapshotCall(Inputs, Nets)
    \/ StocksHistoricalCall(Inputs, Nets)

NextValidate ==
    \/ OptionsCall(ValidateInputs, ValidateNets)
    \/ StocksSnapshotCall(ValidateInputs, ValidateNets)
    \/ StocksHistoricalCall(ValidateInputs, ValidateNets)

Spec == Init /\ [][Next]_vars

SpecValidate == Init /\ [][NextValidate]_vars

NextAttempts ==
    \/ OptionsCall(AttemptInputs, AttemptNets)
    \/ StocksSnapshotCall(AttemptInputs, AttemptNets)
    \/ StocksHistoricalCall(AttemptInputs, AttemptNets)

SpecAttempts == Init /\ [][NextAttempts]_vars

NextParams ==
    \/ OptionsCall(ParamInputs, ParamNets)
    \/ StocksSnapshotCall(ParamInputs, ParamNets)
    \/ StocksHistoricalCall(ParamInputs, ParamNets)

SpecParams == Init /\ [][NextParams]_vars

-----------------------------------------------------------------------------
(* The stock commands of the command line interface *)

\* the module builds ThetaDataStocksHistorical() and ThetaDataStocksSnapshot()
\* with their defaults
InitCli ==
    /\ Init
    /\ client \in {"snapshot", "historical"}
    /\ use_df = TRUE

\* every command passes write_csv=True by keyword
CliKeywords == {"write_csv"}
CliInputs == [Inputs EXCEPT !.write_csv = {TRUE}]

CliCall(e, a, net) ==
    LET r == CallKeywords(e, [a EXCEPT !.write_csv = TRUE], CliKeywords, net,
                          use_df, dirExists, files) IN
    /\ last' = Report(r)
    /\ dirExists' = r.dir
    /\ files' = r.files
    /\ ncalls' = ncalls + 1
    /\ UNCHANGED <<client, use_df, probe, writes, streamVars>>

\* eod_report, historical_quotes, historical_ohlc, historical_trades,
\* trade_quote, splits, dividends
CliHistoricalCommand ==
    /\ client = "historical"
    /\ ncalls < MaxCalls
    /\ \E e \in StocksHistoricalEntries : \E a \in ArgsOf(e, CliInputs), net \in Nets :
          CliCall(e, a, net)

\* snapshot_quotes, bulk_quotes, snapshot_ohlc, bulk_ohlc, snapshot_trades
CliSnapshotCommand ==
    /\ client = "snapshot"
    /\ ncalls < MaxCalls
    /\ \E e \in StocksSnapshotEntries : \E a \in ArgsOf(e, CliInputs), net \in Nets :
          CliCall(e, a, net)

NextCli ==
    \/ CliHistoricalCommand
    \/ CliSnapshotCommand

SpecCli == InitCli /\ [][NextCli]_vars

-----------------------------------------------------------------------------
(* The validators of utils.py called on their own *)

DateAlphabet == {"2", "-", "sup2"}
DateStrings ==
    UNION {[1..n -> DateAlphabet] : n \in 0..MaxDateLen}
        \cup {GoodDate, Day32Date, Month13Date, HyphenDate, ShortDate}
RightStrings == {"C", "P", "c", "p", "", "CP", "X", "call"}
IvlValues == (-1..(MinIvl + 1)) \cup ((MaxIvl - 1)..(MaxIvl + 1))

\* a validator is about to be called on one argument
InitUtils ==
    /\ client = "none"
    /\ use_df = TRUE
    /\ dirExists = FALSE
    /\ files = NoFiles
    /\ ncalls = 0
    /\ last = NoCall
    /\ writes = <<>>
    /\ probe \in {[fn |-> "is_valid_date_format", arg |-> PyChars(s),
                   done |-> FALSE, result |-> FALSE] : s \in DateStrings}
            \cup {[fn |-> "is_valid_right", arg |-> PyStr(r),
                   done |-> FALSE, result |-> FALSE] : r \in RightStrings}
            \cup {[fn |-> "is_valid_ivl", arg |-> PyInt(i),
                   done |-> FALSE, result |-> FALSE] : i \in IvlValues}
    /\ StreamOff

CallIsValidDateFormat ==
    /\ probe.fn = "is_valid_date_format" /\ ~probe.done
    /\ probe' = [probe EXCEPT !.done = TRUE,
                              !.result = is_valid_date_format(probe.arg.chars)]
    /\ UNCHANGED <<client, use_df, dirExists, files, ncalls, last, writes, streamVars>>

CallIsValidRight ==
    /\ probe.fn = "is_valid_right" /\ ~probe.done
    /\ probe' = [probe EXCEPT !.done = TRUE, !.result = is_valid_right(probe.arg.v)]
    /\ UNCHANGED <<client, use_df, dirExists, files, ncalls, last, writes, streamVars>>

CallIsValidIvl ==
    /\ probe.fn = "is_valid_ivl" /\ ~probe.done
    /\ probe' = [probe EXCEPT !.done = TRUE, !.result = is_valid_ivl(probe.arg.v)]
    /\ UNCHANGED <<client, use_df, dirExists, files, ncalls, last, writes, streamVars>>

NextUtils == CallIsValidDateFormat \/ CallIsValidRight \/ CallIsValidIvl

SpecUtils == InitUtils /\ [][NextUtils]_vars

-----------------------------------------------------------------------------
(* The CSV sink of base.py called on its own, any number of times *)

MaxWrites == 3

SinkTables ==
    {DataFrame(TextRows, <<"date", "open">>).df,
     DataFrame(<< <<PyStr("20240103"), PyStr("102.0")>> >>, <<"date", "open">>).df}
SinkCategories == {"quotes", "ohlc"}
SinkIdentifiers == {"AAPL", "MSFT"}
\* files of earlier runs, one of them under a name the sink will write
SinkOldFiles ==
    [f \in {FileName("quotes", "AAPL"), "bulk_quotes_AAPL_MSFT.csv"} |-> OldCsv]

InitSink ==
    /\ client = "sink"
    /\ use_df = TRUE
    /\ dirExists \in BOOLEAN
    /\ files = (IF dirExists THEN SinkOldFiles ELSE NoFiles)
    /\ ncalls = 0
    /\ last = NoCall
    /\ probe = NoProbe
    /\ writes = <<>>
    /\ StreamOff

WriteCsv ==
    /\ client = "sink"
    /\ Len(writes) < MaxWrites
    /\ \E df \in SinkTables, datatype \in SinkCategories, identifier \in SinkIdentifiers :
          LET after == _write_csv(df, datatype, identifier, dirExists, files) IN
          /\ dirExists' = after.dir
          /\ files' = after.files
          /\ writes' = Append(writes, [df |-> df, datatype |-> datatype,
                                       identifier |-> identifier])
    /\ UNCHANGED <<client, use_df, ncalls, last, probe, streamVars>>

NextSink == WriteCsv

SpecSink == InitSink /\ [][NextSink]_vars

-----------------------------------------------------------------------------
(* The websocket consumers: common.py with stream_quotes_to_csv.py, and     *)
(* stream_trades_to_csv.py, which carries its own copies of the helpers of  *)
(* common.py.  A line of text is the sequence of its pieces: the rendered   *)
(* values, the "," between them and the final "\n".  update_progress only   *)
(* prints and is left out.                                                  *)

\* f"{a},{b},{c}\n" from the rendered values a, b, c
RECURSIVE CsvText(_)
CsvText(fields) ==
    IF Len(fields) = 1 THEN <<fields[1], "\n">>
    ELSE <<fields[1], ",">> \o CsvText(Tail(fields))

\* the four header literals
OptionTradeHeader ==
    CsvText(<<"date", "ms_of_day", "sequence", "size", "condition", "price",
              "exchange", "expiration", "strike", "right">>)
OptionQuoteHeader ==
    CsvText(<<"date", "ms_of_day", "bid_size", "bid_exchange", "bid",
              "bid_condition", "ask_size", "ask_exchange", "ask", "ask_condition",
              "expiration", "strike", "right">>)
StockTradeHeader ==
    CsvText(<<"date", "ms_of_day", "sequence", "size", "condition", "price",
              "exchange">>)
StockQuoteHeader ==
    CsvText(<<"date", "ms_of_day", "bid_size", "bid_exchange", "bid",
              "bid_condition", "ask_size", "ask_exchange", "ask", "ask_condition">>)

\* f"{x}" of a JSON number or string
FString(x) ==
    CASE x.t = "int" -> ToString(x.v)
      [] x.t = "float" -> ToString(x.whole) \o "." \o ToString(x.tenths)
      [] OTHER -> x.v

\* os.path.join
PathJoin(a, b) == a \o "/" \o b

\* create_subfolder_and_header: the pair returned (found is FALSE for
\* None, None), the KeyError of a contract without security_type, and the
\* directories after os.makedirs(subfolder, exist_ok=True)
create_subfolder_and_header_any_stock(contract, data_type, ds) ==
    LET none == [exc |-> "none", found |-> FALSE, subfolder |-> "", header |-> <<>>, dirs |-> ds] IN
    IF "security_type" \notin DOMAIN contract THEN [none EXCEPT !.exc = "KeyError"]
    ELSE IF contract.security_type = PyStr("OPTION")
    THEN [none EXCEPT !.found = TRUE, !.subfolder = PathJoin(data_type, "options"),
                      !.header = IF data_type = "trades" THEN OptionTradeHeader
                                 ELSE OptionQuoteHeader,
                      !.dirs = ds \cup {data_type, PathJoin(data_type, "options")}]
    ELSE [none EXCEPT !.found = TRUE, !.subfolder = PathJoin(data_type, "stocks"),
                      !.header = IF data_type = "trades" THEN StockTradeHeader
                                 ELSE StockQuoteHeader,
                      !.dirs = ds \cup {data_type, PathJoin(data_type, "stocks")}]
create_subfolder_and_header(contract, data_type, ds) ==
    LET none == [exc |-> "none", found |-> FALSE, subfolder |-> "", header |-> <<>>, dirs |-> ds] IN
    IF "security_type" \notin DOMAIN contract THEN [none EXCEPT !.exc = "KeyError"]
    ELSE IF contract.security_type = PyStr("OPTION")
    THEN [none EXCEPT !.found = TRUE, !.subfolder = PathJoin(data_type, "options"),
                      !.header = IF data_type = "trades" THEN OptionTradeHeader
                                 ELSE OptionQuoteHeader,
                      !.dirs = ds \cup {data_type, PathJoin(data_type, "options")}]
    ELSE IF contract.security_type = PyStr("STOCK")
    THEN [none EXCEPT !.found = TRUE, !.subfolder = PathJoin(data_type, "stocks"),
                      !.header = IF data_type = "trades" THEN StockTradeHeader
                                 ELSE StockQuoteHeader,
                      !.dirs = ds \cup {data_type, PathJoin(data_type, "stocks")}]
    ELSE none

\* the keys the format functions read, in the order they print them
TradeKeys == <<"date", "ms_of_day", "sequence", "size", "condition", "price", "exchange">>
QuoteKeys == <<"date", "ms_of_day", "bid_size", "bid_exchange", "bid", "bid_condition",
               "ask_size", "ask_exchange", "ask", "ask_condition">>
OptionKeys == <<"expiration", "strike", "right">>

\* d[k] for each k: the KeyError of a missing key, else the rendered values
HasKeys(d, keys) == \A i \in 1..Len(keys) : keys[i] \in DOMAIN d
Rendered(d, keys) == [i \in 1..Len(keys) |-> FString(d[keys[i]])]

\* format_trade_data / format_quote_data: the line (data, <<>> for None) or
\* the KeyError of a missing key
format_data_without_contract(payload, contract, keys) ==
    LET none == [exc |-> "none", data |-> <<>>] IN
    IF "security_type" \notin DOMAIN contract THEN [none EXCEPT !.exc = "KeyError"]
    ELSE IF contract.security_type \in {PyStr("OPTION"), PyStr("STOCK")}
    THEN IF HasKeys(payload, keys)
         THEN [none EXCEPT !.data = CsvText(Rendered(payload, keys))]
         ELSE [none EXCEPT !.exc = "KeyError"]
    ELSE none
format_data(payload, contract, keys) ==
    LET none == [exc |-> "none", data |-> <<>>] IN
    IF "security_type" \notin DOMAIN contract THEN [none EXCEPT !.exc = "KeyError"]
    ELSE IF contract.security_type = PyStr("OPTION")
    THEN IF HasKeys(payload, keys) /\ HasKeys(contract, OptionKeys)
         THEN [none EXCEPT !.data = CsvText(Rendered(payload, keys)
                                            \o Rendered(contract, OptionKeys))]
         ELSE [none EXCEPT !.exc = "KeyError"]
    ELSE IF contract.security_type = PyStr("STOCK")
    THEN IF HasKeys(payload, keys)
         THEN [none EXCEPT !.data = CsvText(Rendered(payload, keys))]
         ELSE [none EXCEPT !.exc = "KeyError"]
    ELSE none
format_trade_data(trade, contract) == format_data(trade, contract, TradeKeys)
format_quote_data(quote, contract) == format_data(quote, contract, QuoteKeys)

\* write_to_file: the files after it
write_to_file_header_always(file_name, header, data, dk) ==
    LET old == IF file_name \in DOMAIN dk THEN dk[file_name] ELSE <<>> IN
    (file_name :> (old \o <<header, data>>)) @@ dk
write_to_file(file_name, header, data, dk) ==
    LET created == IF file_name \in DOMAIN dk THEN dk
                   ELSE (file_name :> <<header>>) @@ dk
    IN  [created EXCEPT ![file_name] = Append(@, data)]

\* download_stats[root] += 1 on a defaultdict(int)
IncrementFromOne(stats, root) == (root :> 1) @@ stats
Increment(stats, root) ==
    IF root \in DOMAIN stats THEN [stats EXCEPT ![root] = @ + 1]
    ELSE (root :> 1) @@ stats

\* what each script fixes: the type its handle_response keeps, the payload
\* key it reads, its data_type
HandledType(c) == IF c = "stream_trades_to_csv" THEN "TRADE" ELSE "QUOTE"
PayloadKey(c) == IF c = "stream_trades_to_csv" THEN "trade" ELSE "quote"
DataType(c) == IF c = "stream_trades_to_csv" THEN "trades" ELSE "quotes"
Format(c, payload, contract) ==
    IF c = "stream_trades_to_csv" THEN format_trade_data(payload, contract)
    ELSE format_quote_data(payload, contract)

\* handle_response of script c on one received text: result is "discarded"
\* (an early return), "written" or "raised" (exc propagates to the loop)
handle_response_header_first(c, response, ds, dk, stats) ==
    LET nothing == [result |-> "discarded", exc |-> "none", dirs |-> ds, disk |-> dk,
                    download_stats |-> stats, file |-> "", data |-> <<>>]
        d == response.data
        contract == d.contract
        payload == d[PayloadKey(c)]
        sh == create_subfolder_and_header(contract, DataType(c), ds)
        fm == Format(c, payload, contract)
        made == [nothing EXCEPT !.dirs = sh.dirs]
        root == FString(contract.root)
        file_name == PathJoin(sh.subfolder, root \o ".csv")
        early == IF file_name \in DOMAIN dk THEN dk ELSE (file_name :> <<sh.header>>) @@ dk
    IN  IF ~response.json THEN [nothing EXCEPT !.result = "raised", !.exc = "JSONDecodeError"]
        ELSE IF "header" \notin DOMAIN d
        THEN [nothing EXCEPT !.result = "raised", !.exc = "KeyError"]
        ELSE IF d.header.type # HandledType(c) THEN nothing
        ELSE IF "contract" \notin DOMAIN d \/ PayloadKey(c) \notin DOMAIN d
        THEN [nothing EXCEPT !.result = "raised", !.exc = "KeyError"]
        ELSE IF sh.exc # "none" THEN [nothing EXCEPT !.result = "raised", !.exc = sh.exc]
        ELSE IF ~sh.found THEN nothing
        ELSE IF "root" \notin DOMAIN contract
        THEN [made EXCEPT !.result = "raised", !.exc = "KeyError"]
        ELSE IF fm.exc # "none"
        THEN [made EXCEPT !.result = "raised", !.exc = fm.exc, !.disk = early]
        ELSE IF fm.data = <<>> THEN made
        ELSE [made EXCEPT !.result = "written",
                          !.disk = write_to_file(file_name, sh.header, fm.data, dk),
                          !.download_stats = Increment(stats, root),
                          !.file = file_name, !.data = fm.data]
handle_response(c, response, ds, dk, stats) ==
    LET nothing == [result |-> "discarded", exc |-> "none", dirs |-> ds, disk |-> dk,
                    download_stats |-> stats, file |-> "", data |-> <<>>]
        d == response.data
        contract == d.contract
        payload == d[PayloadKey(c)]
        sh == create_subfolder_and_header(contract, DataType(c), ds)
        fm == Format(c, payload, contract)
        made == [nothing EXCEPT !.dirs = sh.dirs]
        root == FString(contract.root)
        file_name == PathJoin(sh.subfolder, root \o ".csv")
    IN  IF ~response.json THEN [nothing EXCEPT !.result = "raised", !.exc = "JSONDecodeError"]
        ELSE IF "header" \notin DOMAIN d
        THEN [nothing EXCEPT !.result = "raised", !.exc = "KeyError"]
        ELSE IF d.header.type # HandledType(c) THEN nothing
        ELSE IF "contract" \notin DOMAIN d \/ PayloadKey(c) \notin DOMAIN d
        THEN [nothing EXCEPT !.result = "raised", !.exc = "KeyError"]
        ELSE IF sh.exc # "none" THEN [nothing EXCEPT !.result = "raised", !.exc = sh.exc]
        ELSE IF ~sh.found THEN nothing
        ELSE IF fm.exc # "none" THEN [made EXCEPT !.result = "raised", !.exc = fm.exc]
        ELSE IF fm.data = <<>> THEN made
        ELSE IF "root" \notin DOMAIN contract
        THEN [made EXCEPT !.result = "raised", !.exc = "KeyError"]
        ELSE [made EXCEPT !.result = "written",
                          !.disk = write_to_file(file_name, sh.header, fm.data, dk),
                          !.download_stats = Increment(stats, root),
                          !.file = file_name, !.data = fm.data]

\* the subscribe frame both scripts build
SubscribeFrame(sec, req, i) ==
    [msg_type |-> "STREAM_BULK", sec_type |-> sec, req_type |-> req, add |-> TRUE, id |-> i]

-----------------------------------------------------------------------------
(* The messages the terminal pushes, and the consumer as a process *)

MaxMessages == 3

StockTSLA == [security_type |-> PyStr("STOCK"), root |-> PyStr("TSLA")]
StockAAPL == [security_type |-> PyStr("STOCK"), root |-> PyStr("AAPL")]
OptionTSLA == [security_type |-> PyStr("OPTION"), root |-> PyStr("TSLA"),
               expiration |-> PyInt(20240119), strike |-> PyInt(250000),
               right |-> PyStr("C")]
IndexSPX == [security_type |-> PyStr("INDEX"), root |-> PyStr("SPX")]
\* contracts that lack a key
NoSecurityType == [root |-> PyStr("TSLA")]
StockNoRoot == [security_type |-> PyStr("STOCK")]
OptionNoStrike == [security_type |-> PyStr("OPTION"), root |-> PyStr("TSLA"),
                   expiration |-> PyInt(20240119), right |-> PyStr("C")]

Trade(n) == [date |-> PyInt(20240102), ms_of_day |-> PyInt(34200000),
             sequence |-> PyInt(n), size |-> PyInt(100), condition |-> PyInt(0),
             price |-> PyFloat(250, 5), exchange |-> PyInt(1)]
Quote(n) == [date |-> PyInt(20240102), ms_of_day |-> PyInt(34200000 + n),
             bid_size |-> PyInt(3), bid_exchange |-> PyInt(1),
             bid |-> PyFloat(250, 4), bid_condition |-> PyInt(0),
             ask_size |-> PyInt(2), ask_exchange |-> PyInt(1),
             ask |-> PyFloat(250, 6), ask_condition |-> PyInt(0)]
\* payloads that lack a key
TradeNoPrice == [k \in DOMAIN Trade(1) \ {"price"} |-> Trade(1)[k]]
QuoteNoBid == [k \in DOMAIN Quote(1) \ {"bid"} |-> Quote(1)[k]]

TradeMessage(contract, trade) ==
    [json |-> TRUE, data |-> [header |-> [type |-> "TRADE"], contract |-> contract,
                              trade |-> trade]]
QuoteMessage(contract, quote) ==
    [json |-> TRUE, data |-> [header |-> [type |-> "QUOTE"], contract |-> contract,
                              quote |-> quote]]
\* messages without a payload, without a contract, without a header, and a
\* text that is not JSON
BareMessage(type, contract) ==
    [json |-> TRUE, data |-> [header |-> [type |-> type], contract |-> contract]]
TradeNoContract == [json |-> TRUE, data |-> [header |-> [type |-> "TRADE"], trade |-> Trade(1)]]
QuoteNoContract == [json |-> TRUE, data |-> [header |-> [type |-> "QUOTE"], quote |-> Quote(1)]]
NoHeader == [json |-> TRUE, data |-> EmptyDict]
NotJson == [json |-> FALSE, data |-> EmptyDict]

WellFormed ==
    {TradeMessage(c, Trade(n)) : c \in {StockTSLA, OptionTSLA}, n \in {1, 2}}
    \cup {QuoteMessage(c, Quote(n)) : c \in {StockTSLA, OptionTSLA}, n \in {1, 2}}
    \cup {TradeMessage(c, Trade(1)) : c \in {StockAAPL, IndexSPX}}
    \cup {QuoteMessage(c, Quote(1)) : c \in {StockAAPL, IndexSPX}}
Malformed ==
    {TradeMessage(c, Trade(1)) : c \in {NoSecurityType, StockNoRoot, OptionNoStrike}}
    \cup {QuoteMessage(c, Quote(1)) : c \in {NoSecurityType, StockNoRoot, OptionNoStrike}}
    \cup {TradeMessage(StockTSLA, TradeNoPrice), QuoteMessage(StockTSLA, QuoteNoBid)}
    \cup {BareMessage(t, c) : t \in {"TRADE", "QUOTE"}, c \in {StockTSLA, IndexSPX}}
    \cup {TradeNoContract, QuoteNoContract, NoHeader, NotJson}
Messages == WellFormed \cup Malformed

\* the working directory at start: empty, or left by an earlier run
OldTradeLine == CsvText(<<"20231229", "57600000", "9", "10", "0", "248.0", "1">>)
OldQuoteLine == CsvText(<<"20231229", "57600000", "1", "1", "247.9", "0", "1", "1",
                          "248.1", "0">>)
OldDirs == {"trades", "trades/stocks", "quotes", "quotes/stocks"}
OldDisk == ("trades/stocks/TSLA.csv" :> <<StockTradeHeader, OldTradeLine>>)
           @@ ("quotes/stocks/TSLA.csv" :> <<StockQuoteHeader, OldQuoteLine>>)
NoDisk == [p \in {} |-> <<>>]
NoStats == [r \in {} |-> 0]

\* the ways a script is started: stream_bulk_trades(sec_type, req_type, id),
\* stream_bulk_quotes(sec_type, id)
Starts ==
    {[consumer |-> "stream_trades_to_csv", sec_type |-> s.sec, req_type |-> r, id |-> s.id] :
        s \in {[sec |-> "STOCK", id |-> 0], [sec |-> "OPTION", id |-> 7]},
        r \in {"TRADE", "QUOTE"}}
    \cup {[consumer |-> "stream_quotes_to_csv", sec_type |-> s.sec, req_type |-> "QUOTE",
           id |-> s.id] :
        s \in {[sec |-> "STOCK", id |-> 0], [sec |-> "OPTION", id |-> 7]}}

InitStream ==
    /\ client = "none"
    /\ use_df = TRUE
    /\ dirExists = FALSE
    /\ files = NoFiles
    /\ ncalls = 0
    /\ last = NoCall
    /\ probe = NoProbe
    /\ writes = <<>>
    /\ pc = "start"
    /\ \E s \in Starts :
          /\ consumer = s.consumer
          /\ sec_type = s.sec_type
          /\ req_type = s.req_type
          /\ id = s.id
    /\ connections = 0
    /\ frames = <<>>
    /\ nmsgs = 0
    /\ dirs \in {{}, OldDirs}
    /\ disk = (IF dirs = {} THEN NoDisk ELSE OldDisk)
    /\ disk0 = disk
    /\ download_stats = NoStats
    /\ error = "none"
    /\ step = NoStep
    /\ appended = NoDisk

\* websockets.connect(WS_URL) entered
Connect ==
    /\ pc = "start"
    /\ pc' = "connected"
    /\ connections' = connections + 1
    /\ UNCHANGED <<consumer, sec_type, req_type, id, frames, nmsgs, dirs, disk,
                   download_stats, error, step, appended>>
    /\ UNCHANGED <<requestVars, disk0>>

\* websockets.connect raises: nothing listens on the port
ConnectFails ==
    /\ pc = "start"
    /\ pc' = "terminated"
    /\ error' = "ConnectionRefusedError"
    /\ UNCHANGED <<consumer, sec_type, req_type, id, connections, frames, nmsgs,
                   dirs, disk, download_stats, step, appended>>
    /\ UNCHANGED <<requestVars, disk0>>

\* await websocket.send(json.dumps(req))
SubscribeEachTime ==
    /\ pc \in {"connected", "streaming"}
    /\ Len(frames) < MaxMessages
    /\ frames' = Append(frames, SubscribeFrame(sec_type, req_type, id))
    /\ pc' = "streaming"
    /\ UNCHANGED <<consumer, sec_type, req_type, id, connections, nmsgs, dirs, disk,
                   download_stats, error, step, appended>>
    /\ UNCHANGED <<requestVars, disk0>>
Subscribe ==
    /\ pc = "connected"
    /\ frames' = Append(frames, SubscribeFrame(sec_type, req_type, id))
    /\ pc' = "streaming"
    /\ UNCHANGED <<consumer, sec_type, req_type, id, connections, nmsgs, dirs, disk,
                   download_stats, error, step, appended>>
    /\ UNCHANGED <<requestVars, disk0>>

\* one turn of the loop: websocket.recv() returns a message and
\* handle_response runs on it; an exception of it ends the process
Handle(msg) ==
    LET r == handle_response(consumer, msg, dirs, disk, download_stats) IN
    /\ nmsgs' = nmsgs + 1
    /\ step' = [msg |-> msg, result |-> r.result, exc |-> r.exc,
                before |-> [dirs |-> dirs, disk |-> disk,
                            download_stats |-> download_stats]]
    /\ dirs' = r.dirs
    /\ disk' = r.disk
    /\ download_stats' = r.download_stats
    /\ appended' = IF r.result # "written" THEN appended
                   ELSE IF r.file \in DOMAIN appended
                   THEN [appended EXCEPT ![r.file] = Append(@, r.data)]
                   ELSE (r.file :> <<r.data>>) @@ appended
    /\ pc' = IF r.result = "raised" THEN "terminated" ELSE "streaming"
    /\ error' = r.exc
    /\ UNCHANGED <<consumer, sec_type, req_type, id, connections, frames>>
    /\ UNCHANGED <<requestVars, disk0>>

Receive ==
    /\ pc = "streaming"
    /\ nmsgs < MaxMessages
    /\ \E msg \in Messages : Handle(msg)

\* websocket.recv() raises: the connection was closed
ConnectionDropsReconnect ==
    /\ pc = "streaming"
    /\ connections < MaxMessages
    /\ pc' = "start"
    /\ UNCHANGED <<consumer, sec_type, req_type, id, connections, frames, nmsgs,
                   dirs, disk, download_stats, error, step, appended>>
    /\ UNCHANGED <<requestVars, disk0>>
ConnectionDrops ==
    /\ pc = "streaming"
    /\ pc' = "terminated"
    /\ error' = "ConnectionClosed"
    /\ UNCHANGED <<consumer, sec_type, req_type, id, connections, frames, nmsgs,
                   dirs, disk, download_stats, step, appended>>
    /\ UNCHANGED <<requestVars, disk0>>

NextStream ==
    \/ Connect
    \/ ConnectFails
    \/ Subscribe
    \/ Receive
    \/ ConnectionDrops

SpecStream == InitStream /\ [][NextStream]_vars

-----------------------------------------------------------------------------
(* Properties.  last is the report of the latest call, last.before the file *)
(* system that call found, dirExists and files the file system it left.     *)

Called == last.outcome # "none"
Sent == last.sent # <<>>
FsUnchanged == dirExists = last.before.dir /\ files = last.before.files
TransportFailures == {"ConnectionError", "Timeout", "HTTPError", "JSONDecodeError"}

\* C1: send_request never raises to its caller: whenever the request fails
\* (no connection, a non-2xx status, a body that is not JSON) no transport
\* exception reaches the caller and send_request returned None; it returns
\* something other than None only when the request succeeded, and then it
\* is the decoded body.
C1_SendRequestNeverRaises ==
    Sent =>
        /\ last.net.kind # "ok" =>
              last.exc \notin TransportFailures /\ last.response = PyNone
        /\ last.response # PyNone =>
              last.net.kind = "ok" /\ last.response = PyDict(last.net.body)

\* a non-2xx status: raise_for_status raised, the entry still returned
C1_Witness ==
    /\ Sent
    /\ last.net.kind = "HTTPError"
    /\ last.response = PyNone
    /\ last.outcome = "return"

\* C2: when send_request returns None, every entry returns None and the file
\* system is as the call found it: no file written, no directory created,
\* write_csv or not.
C2_AbsentPropagates ==
    Sent /\ last.response = PyNone =>
        /\ last.outcome = "return"
        /\ last.ret = PyNone
        /\ FsUnchanged

\* a failed request of an entry called with write_csv=True, no output
\* directory before or after
C2_Witness ==
    /\ Sent
    /\ last.response = PyNone
    /\ "write_csv" \in Entry.sig
    /\ last.args.write_csv = TRUE
    /\ last.ret = PyNone
    /\ ~dirExists

\* C3 as stated: an entry returns None if and only if the request failed
\* (send_request returned None) or a date check failed.
C3_AbsentIffFailed ==
    Called /\ last.outcome = "return" =>
        (last.ret = PyNone <=>
            \/ last.validated = "dates"
            \/ Sent /\ last.response = PyNone)

\* C4 as stated: the table returned has the columns of header.format and the
\* rows of response, every cell exactly as delivered.
C4_ValuesKeptExactly ==
    Called /\ last.outcome = "return" /\ last.ret.t = "DataFrame"
           /\ Entry.columns = "format" =>
        /\ last.ret.columns = last.response.v.header.format
        /\ last.ret.rows = last.response.v.response

\* what pd.DataFrame may make of a delivered cell
KeptAs(delivered, cell) ==
    \/ cell = delivered
    \/ delivered.t = "int" /\ cell = PyFloat(delivered.v, 0)
    \/ delivered.t = "None" /\ cell = PyNaN

\* C4, amended: the table returned has the columns of header.format, in
\* order, and one row per row of response, in order; a text cell is kept
\* exactly, a column holding only integers or only text is kept exactly, and
\* in a numeric column holding a float or a null every integer is kept as the
\* float of the same value and every null becomes NaN.
C4_ValuesKeptUpToDtype ==
    Called /\ last.outcome = "return" /\ last.ret.t = "DataFrame"
           /\ Entry.columns = "format" =>
        LET format == last.response.v.header.format
            data == last.response.v.response
            rows == last.ret.rows IN
        /\ last.ret.columns = format
        /\ Len(rows) = Len(data)
        /\ \A i \in 1..Len(data) :
              /\ Len(rows[i]) = Len(format)
              /\ \A j \in 1..Len(format) :
                    /\ KeptAs(data[i][j], rows[i][j])
                    /\ data[i][j].t = "str" => rows[i][j] = data[i][j]
                    /\ CellTypes(data, j) \in {{"int"}, {"str"}} =>
                          rows[i][j] = data[i][j]

\* a table made of rows holding integers, floats, nulls and text
C4_Witness ==
    /\ Called
    /\ last.outcome = "return"
    /\ last.ret.t = "DataFrame"
    /\ last.response = PyDict(NumberEnvelope)
    /\ last.ret.rows[2][2] = PyNaN

\* C5: an options entry that takes right raises ValueError when right is
\* neither "C" nor "P", before any request is sent and with the file system
\* untouched; when right is "C" or "P" the right check does not stop the call.
C5_RightChecked ==
    Called /\ Entry.cls = "options" /\ "right" \in Entry.sig =>
        IF last.args.right.v \in {"C", "P"}
        THEN last.validated # "right"
        ELSE /\ last.outcome = "raise"
             /\ last.exc = "ValueError"
             /\ last.sent = <<>>
             /\ FsUnchanged

\* right="c" raised with nothing sent
C5_Witness ==
    /\ Called
    /\ Entry.cls = "options"
    /\ "right" \in Entry.sig
    /\ last.args.right.v = "c"
    /\ last.outcome = "raise"
    /\ last.sent = <<>>

\* the interval argument of the last call, as a number
HasInterval == {"ivl", "interval"} \cap Entry.sig # {}
IntervalArg ==
    IF "ivl" \in Entry.sig THEN last.args.ivl.v
    ELSE CHOOSE n \in IntervalNumbers : ToString(n) = last.args.interval.v

\* C6 as stated: an entry that takes an interval raises, sending nothing,
\* whenever the interval is outside 100..3600000.
C6_OutOfRangeIntervalRaises ==
    Called /\ HasInterval /\ ~(100 <= IntervalArg /\ IntervalArg <= 3600000) =>
        /\ last.outcome = "raise"
        /\ last.sent = <<>>

\* the date arguments of the last call
DateParams == {"start_date", "end_date", "exp"} \cap Entry.sig
BadDates == {k \in DateParams : ~is_valid_date_format(last.args[k].chars)}

\* C7 as stated: an entry that takes dates returns None, raising nothing and
\* sending nothing, whenever one of its dates is not a valid YYYYMMDD string
\* (calls stopped by the right, interval or venue check aside).
C7_BadDateReturnsAbsent ==
    Called /\ BadDates # {} /\ last.validated \notin {"right", "ivl", "venue"} =>
        /\ last.outcome = "return"
        /\ last.ret = PyNone
        /\ last.sent = <<>>

\* C8: get_eod_report returns None, sending nothing, when start_date or
\* end_date fails the date-format check, and sends exactly one request when
\* both pass.
C8_EodReportDates ==
    Called /\ Entry = StocksHistorical_get_eod_report =>
        IF BadDates = {}
        THEN Len(last.sent) = 1
        ELSE /\ last.outcome = "return"
             /\ last.ret = PyNone
             /\ last.sent = <<>>

\* a valid start_date with an invalid end_date
C8_Witness ==
    /\ Called
    /\ Entry = StocksHistorical_get_eod_report
    /\ BadDates = {"end_date"}
    /\ last.ret = PyNone
    /\ last.sent = <<>>

\* C9 as stated: the date validator returns true if and only if the string
\* has exactly 8 characters, every one a decimal digit.
C9_EightDecimalDigits ==
    probe.fn = "is_valid_date_format" /\ probe.done =>
        (probe.result <=>
            /\ Len(probe.arg.chars) = 8
            /\ \A i \in 1..Len(probe.arg.chars) : probe.arg.chars[i] \in AsciiDigits)

\* C10: the interval validator returns true if and only if
\* 100 <= ivl <= 3600000.
C10_IvlClosedRange ==
    probe.fn = "is_valid_ivl" /\ probe.done =>
        (probe.result <=> (100 <= probe.arg.v /\ probe.arg.v <= 3600000))

\* the upper boundary is accepted
C10_Witness ==
    /\ probe.fn = "is_valid_ivl"
    /\ probe.done
    /\ probe.arg.v = 3600000
    /\ probe.result

\* the file a call of the last entry with the last arguments is to write
LastFile == FileName(Entry.datatype, Identifier(Entry, last.args))
ReturnedTable == Called /\ last.outcome = "return" /\ last.ret.t = "DataFrame"
\* the last call made again from the file system it found, with other arguments
Rerun(args) ==
    RunEntry(Entry, args, last.net, use_df, last.before.dir, last.before.files)

\* C11: for a present envelope, _process_response writes the CSV file if and
\* only if write_csv is true: with write_csv true the file of the entry is in
\* the output directory, holding the returned table, when the table is
\* returned, and every other file is as before; with write_csv false the file
\* system is as the call found it; the same call with write_csv flipped
\* returns the same table.
C11_WritesIffWriteCsv ==
    ReturnedTable /\ Entry.shaper = "_process_response" =>
        /\ IF last.args.write_csv
           THEN /\ dirExists
                /\ DOMAIN files = DOMAIN last.before.files \cup {LastFile}
                /\ files[LastFile] = to_csv(last.ret)
                /\ \A f \in DOMAIN last.before.files \ {LastFile} :
                      files[f] = last.before.files[f]
           ELSE FsUnchanged
        /\ Rerun([last.args EXCEPT !.write_csv = ~@]).ret = last.ret

\* a table returned with write_csv=True, the directory created by the call
C11_Witness ==
    /\ ReturnedTable
    /\ Entry.shaper = "_process_response"
    /\ last.args.write_csv
    /\ ~last.before.dir
    /\ dirExists
    /\ LastFile \in DOMAIN files

\* the writes made so far for the pair of write i
SamePair(i) ==
    {k \in 1..Len(writes) : /\ writes[k].datatype = writes[i].datatype
                            /\ writes[k].identifier = writes[i].identifier}
Latest(S) == CHOOSE k \in S : \A j \in S : j <= k
WrittenFiles == {FileName(writes[i].datatype, writes[i].identifier) : i \in 1..Len(writes)}

\* C12: after any sequence of _write_csv calls the output directory exists,
\* the file {datatype}_{identifier}.csv of every pair written holds the
\* header line and the rows of the table of the latest write for that pair,
\* and nothing else (overwritten, not appended), and every other file is the
\* file that was there before the first write.
C12_LatestWriteWins ==
    writes # <<>> =>
        /\ dirExists
        /\ \A i \in 1..Len(writes) :
              LET f == FileName(writes[i].datatype, writes[i].identifier) IN
              /\ f \in DOMAIN files
              /\ files[f] = to_csv(writes[Latest(SamePair(i))].df)
        /\ \A f \in DOMAIN files \ WrittenFiles :
              f \in DOMAIN SinkOldFiles /\ files[f] = SinkOldFiles[f]

\* a pair written twice with different tables over a file of an earlier run,
\* and another pair written in between
C12_Witness ==
    /\ Len(writes) = 3
    /\ writes[1].datatype = "quotes" /\ writes[1].identifier = "AAPL"
    /\ writes[3].datatype = "quotes" /\ writes[3].identifier = "AAPL"
    /\ writes[2].identifier = "MSFT"
    /\ writes[1].df # writes[3].df
    /\ "bulk_quotes_AAPL_MSFT.csv" \in DOMAIN files
    /\ files[FileName("quotes", "AAPL")] = to_csv(writes[3].df)

\* the entries, other than the last one called, that write a CSV file named
\* after the same kind of natural key
OtherWriters ==
    {e \in Entries \ {Entry} : e.shaper = "_process_response" /\ e.ident = Entry.ident}

\* C13 as stated: no other entry has the category label of the entry that
\* wrote, and no other entry called for the same natural key writes the file
\* this call wrote.
C13_OneEntryPerFile ==
    ReturnedTable /\ Entry.shaper = "_process_response" /\ last.args.write_csv =>
        \A e \in OtherWriters :
            /\ e.datatype # Entry.datatype
            /\ FileName(e.datatype, Identifier(e, last.args)) # LastFile

\* C14: a call sends at most one request: exactly one when every check of
\* the entry passes, whatever the terminal then answers, and none when a
\* check fails.
C14_OneRequestPerCall ==
    Called =>
        /\ Len(last.sent) <= 1
        /\ last.validated = "ok" <=> Len(last.sent) = 1
        /\ (last.outcome = "raise" /\ last.exc = "ValueError" /\ last.response = PyNone)
              => last.sent = <<>>

\* one request, and no more, after the terminal refused the connection
C14_Witness ==
    /\ Called
    /\ last.net.kind = "ConnectionError"
    /\ Len(last.sent) = 1
    /\ last.ret = PyNone

\* the parameters of the last entry that its method adds to the map under a
\* condition, and the map the call sent
OptionalParams ==
    (({"start_time", "end_time", "venue", "annual_div", "rate", "rate_value",
       "under_price"} \cap Entry.sig) \ Entry.required)
        \cup (IF Entry = get_bulk_trade THEN {"ivl"} ELSE {})
SentParams == last.sent[1].params

\* C15 as stated: in the map sent, an optional parameter is present if and
\* only if the caller gave it a value other than None, and the required
\* parameters are present.
C15_OptionalIffSupplied ==
    Sent =>
        /\ \A k \in OptionalParams :
              k \in DOMAIN SentParams <=> last.args[k] # PyNone
        /\ Entry.required \subseteq DOMAIN SentParams

\* C16: use_csv changes the use_csv entry of the map sent and nothing else:
\* the same call with use_csv flipped, given the same answer, sends the same
\* map but for "use_csv", ends the same way with an equal table and leaves
\* the same file system; and the file system changes only under write_csv.
C16_UseCsvOnlyInParams ==
    Called /\ "use_csv" \in Entry.sig =>
        LET other == Rerun([last.args EXCEPT !.use_csv = ~@]) IN
        /\ Len(other.sent) = 1 /\ Len(last.sent) = 1
        /\ SentParams.use_csv = LowerBool(last.args.use_csv)
        /\ other.sent[1].params =
              [SentParams EXCEPT !.use_csv = LowerBool(~last.args.use_csv)]
        /\ other.sent[1].endpoint = last.sent[1].endpoint
        /\ other.outcome = last.outcome
        /\ other.exc = last.exc
        /\ other.ret = last.ret
        /\ other.dir = dirExists
        /\ other.files = files
        /\ ~last.args.write_csv => FsUnchanged
        /\ last.args.write_csv /\ ReturnedTable => LastFile \in DOMAIN files

\* a call with use_csv=True and write_csv=True that returned a table and
\* wrote its file
C16_Witness ==
    /\ ReturnedTable
    /\ "use_csv" \in Entry.sig
    /\ last.args.use_csv
    /\ last.args.write_csv
    /\ SentParams.use_csv = PyStr("true")
    /\ LastFile \in DOMAIN files

\* the last call made once more, with the same arguments and the same answer,
\* from the file system the last call left
Again == RunEntry(Entry, last.args, last.net, use_df, dirExists, files)

C19_HistoricalTableFromHeader ==
    (ReturnedTable /\ last.entry.cls = "historical") =>
        /\ last.ret.columns = last.response.v.header.format
        /\ Len(last.ret.rows) = Len(last.response.v.response)

\* C20: snapshot get_quotes and get_bulk_quotes raise ValueError, without a
\* request, when a venue is supplied that is neither nqb nor utp_cta; with a
\* valid venue the sent parameters hold that venue and the call returns.
VenueEntries == {e \in StocksSnapshotEntries : e.check_venue}
C20_VenueChecked ==
    (Called /\ Entry \in VenueEntries /\ last.args.venue # PyNone) =>
        IF last.args.venue.v \in {"nqb", "utp_cta"}
        THEN /\ Len(last.sent) = 1
             /\ "venue" \in DOMAIN SentParams
             /\ SentParams.venue = last.args.venue
             /\ last.outcome = "return"
        ELSE /\ last.outcome = "raise"
             /\ last.exc = "ValueError"
             /\ last.sent = <<>>


\* C18: get_eod_report called with write_csv=True, valid dates and a terminal
\* answering an n-row envelope returns an n-row table and leaves the file
\* eod_{symbol}_{start_date}_{end_date}.csv holding the header line and n data
\* lines.
EodFile ==
    FileName("eod", last.args.symbol.v \o "_" \o Join(last.args.start_date.chars)
                        \o "_" \o Join(last.args.end_date.chars))
C18_EodReportWritesCsv ==
    (/\ Called /\ Entry = StocksHistorical_get_eod_report
     /\ BadDates = {} /\ last.args.write_csv
     /\ last.net.kind = "ok" /\ last.net.body \in Envelopes) =>
        /\ last.outcome = "return"
        /\ last.ret.t = "DataFrame"
        /\ Len(last.ret.rows) = Len(last.net.body.response)
        /\ dirExists
        /\ EodFile \in DOMAIN files
        /\ Len(files[EodFile]) = 1 + Len(last.net.body.response)
        /\ files[EodFile][1] = last.net.body.header.format


\* the failures in which a response object was obtained: raise_for_status and
\* response.json() act on the response requests.get returned
ResponseObtained(net) == net.kind \in {"HTTPError", "JSONDecodeError"}

\* C28: on a transport failure in which a response was received (a non-2xx
\* status in particular) send_request logs the raw body of that response, and
\* it logs "No response" only when no response object was obtained.
C28_FailureBodyLogged ==
    (Called /\ Sent /\ last.net.kind \in TransportFailures) =>
        /\ ResponseObtained(last.net) => last.logged = last.net.text
        /\ last.logged = "No response" => ~ResponseObtained(last.net)

\* C29: when the decoded JSON body lacks the header key, header.format or the
\* response key (the empty object included), the call raises the lookup error:
\* it returns neither None nor a table, and no CSV is written.
MalformedBody(d) ==
    \/ "header" \notin DOMAIN d
    \/ "format" \notin DOMAIN d.header
    \/ "response" \notin DOMAIN d
C29_MalformedBodyRaises ==
    (Called /\ Sent /\ last.net.kind = "ok" /\ MalformedBody(last.net.body)) =>
        /\ last.outcome = "raise"
        /\ last.exc = "KeyError"
        /\ FsUnchanged


-----------------------------------------------------------------------------
(* Properties of the websocket consumers.  step is the latest message       *)
(* handled, step.before the directories, files and counters it found.       *)

\* step.result is "discarded" when handle_response returned early (the loop
\* goes on to the next receive), "raised" when it let an exception through
Stepped == step.result # "none"
Typed == Stepped /\ step.msg.json /\ "header" \in DOMAIN step.msg.data
MsgType == step.msg.data.header.type
NothingDone ==
    /\ dirs = step.before.dirs
    /\ disk = step.before.disk
    /\ download_stats = step.before.download_stats
KnownSecurityType ==
    /\ "contract" \in DOMAIN step.msg.data
    /\ "security_type" \in DOMAIN step.msg.data.contract
    /\ step.msg.data.contract.security_type \in {PyStr("STOCK"), PyStr("OPTION")}

\* C21: a message is discarded for its type exactly when header.type differs
\* from the req_type of the subscribe frame: then nothing is written or
\* created, no counter changes, nothing is raised and the loop goes on; a
\* message of the subscribed type is discarded only for its security type.
C21_DiscardedIffOtherType ==
    Typed =>
        /\ MsgType # req_type =>
              /\ step.result = "discarded"
              /\ step.exc = "none"
              /\ NothingDone
        /\ (MsgType = req_type /\ step.result = "discarded") => ~KnownSecurityType


\* the message is of the class the script handles, for a stock or an option,
\* and carries the contract and the payload with all their fields
Accepted ==
    /\ Typed
    /\ MsgType = HandledType(consumer)
    /\ KnownSecurityType
    /\ step.msg \in WellFormed
IsStock == step.msg.data.contract.security_type = PyStr("STOCK")
ExpectedFile ==
    DataType(consumer) \o "/" \o (IF IsStock THEN "stocks" ELSE "options") \o "/"
        \o step.msg.data.contract.root.v \o ".csv"
ExpectedColumns ==
    IF IsStock THEN (IF HandledType(consumer) = "TRADE" THEN 7 ELSE 10)
    ELSE (IF HandledType(consumer) = "TRADE" THEN 10 ELSE 13)
\* the number of comma-separated fields of a line, and a text that is one line
FieldCount(line) == 1 + Cardinality({i \in DOMAIN line : line[i] = ","})
OneLine(line) ==
    /\ line # <<>>
    /\ \A i \in DOMAIN line : (line[i] = "\n") <=> (i = Len(line))
Existed(f) == f \in DOMAIN step.before.disk

InFolder(f, folder) == \E r \in {"TSLA", "AAPL", "SPX"} : f = folder \o "/" \o r \o ".csv"
HeaderOfPath(f) ==
    CASE InFolder(f, "trades/stocks") -> StockTradeHeader
      [] InFolder(f, "trades/options") -> OptionTradeHeader
      [] InFolder(f, "quotes/stocks") -> StockQuoteHeader
      [] InFolder(f, "quotes/options") -> OptionQuoteHeader
Headers == {StockTradeHeader, OptionTradeHeader, StockQuoteHeader, OptionQuoteHeader}
Appended(f) == IF f \in DOMAIN appended THEN appended[f] ELSE <<>>

\* C23: a file that did not exist at start is its header line, once and
\* first, followed by the lines of the messages accepted for it in arrival
\* order; a file that existed is its old content followed by those lines,
\* with no second header; no file and no line is removed or changed.
C23_HeaderOnceThenLines ==
    /\ DOMAIN disk0 \subseteq DOMAIN disk
    /\ DOMAIN appended \subseteq DOMAIN disk
    /\ \A f \in DOMAIN disk :
          /\ IF f \in DOMAIN disk0 THEN disk[f] = disk0[f] \o Appended(f)
             ELSE disk[f] = <<HeaderOfPath(f)>> \o Appended(f)
          /\ \A i \in DOMAIN Appended(f) : Appended(f)[i] \notin Headers
C23_Witness ==
    /\ nmsgs = 3
    /\ "trades/options/TSLA.csv" \in DOMAIN disk \ DOMAIN disk0
    /\ Len(disk["trades/options/TSLA.csv"]) = 3
    /\ disk["trades/options/TSLA.csv"][2] # disk["trades/options/TSLA.csv"][3]
    /\ "trades/stocks/TSLA.csv" \in DOMAIN disk0
    /\ Len(disk["trades/stocks/TSLA.csv"]) = 3


UnknownSecurityType ==
    /\ Typed
    /\ "contract" \in DOMAIN step.msg.data
    /\ "security_type" \in DOMAIN step.msg.data.contract
    /\ step.msg.data.contract.security_type \notin {PyStr("STOCK"), PyStr("OPTION")}
\* the handler returned early: the loop goes on to the next receive
DiscardedSilently ==
    /\ step.result = "discarded"
    /\ step.exc = "none"
    /\ NothingDone

\* C24 as stated: a message whose contract.security_type is neither STOCK nor
\* OPTION is discarded silently: no directory or file is created or written,
\* no counter changes, nothing is raised and the loop goes on.
C24_UnknownSecurityTypeDiscarded ==
    UnknownSecurityType => DiscardedSilently

\* C24, amended: a message whose contract.security_type is neither STOCK nor
\* OPTION is discarded silently, unless it is of the class the script handles
\* and lacks the payload object of that class (trade or quote), which raises
\* KeyError before the security type is looked at.
LacksPayload ==
    /\ MsgType = HandledType(consumer)
    /\ PayloadKey(consumer) \notin DOMAIN step.msg.data
C24_UnknownSecurityTypeWithPayloadDiscarded ==
    (UnknownSecurityType /\ ~LacksPayload) => DiscardedSilently
C24_Witness ==
    /\ UnknownSecurityType
    /\ MsgType = HandledType(consumer)
    /\ ~LacksPayload
    /\ step.before.dirs = {}
    /\ dirs = {}
    /\ nmsgs = 1


StreamRoots == {"TSLA", "AAPL", "SPX"}
Count(r) == IF r \in DOMAIN download_stats THEN download_stats[r] ELSE 0
\* the lines this process appended for root r, over its stocks and options files
LinesFor(r) ==
    Len(Appended("trades/stocks/" \o r \o ".csv"))
    + Len(Appended("trades/options/" \o r \o ".csv"))
    + Len(Appended("quotes/stocks/" \o r \o ".csv"))
    + Len(Appended("quotes/options/" \o r \o ".csv"))
FileLength(d, f) == IF f \in DOMAIN d THEN Len(d[f]) ELSE 0
RootFiles(r) == {folder \o "/" \o r \o ".csv" :
                    folder \in {"trades/stocks", "trades/options",
                                "quotes/stocks", "quotes/options"}}
CountersMatchLines ==
    /\ DOMAIN download_stats \subseteq StreamRoots
    /\ DOMAIN appended \subseteq UNION {RootFiles(r) : r \in StreamRoots}
    /\ \A r \in StreamRoots : Count(r) = LinesFor(r)
    /\ Count("TSLA") + Count("AAPL") + Count("SPX")
          = LinesFor("TSLA") + LinesFor("AAPL") + LinesFor("SPX")
CounterStep ==
    \A r \in StreamRoots :
        /\ Count(r)' \in {Count(r), Count(r) + 1}
        /\ Count(r)' = Count(r) + 1 =>
              \E f \in RootFiles(r) :
                  /\ FileLength(disk', f) > FileLength(disk, f)
                  /\ \A g \in DOMAIN disk' \ {f} : FileLength(disk', g) = FileLength(disk, g)

\* C25: every per-root counter never decreases, changes only by +1 and only
\* in the step that appended a line for that root, and equals the number of
\* lines this process appended for the root over its stocks and options
\* files; the counters add up to the number of lines appended.
C25_CountersCountLines == [](CountersMatchLines) /\ [][CounterStep]_vars
C25_Witness ==
    /\ Count("TSLA") = 2
    /\ Count("AAPL") = 1
    /\ Len(Appended("quotes/stocks/TSLA.csv")) = 1
    /\ Len(Appended("quotes/options/TSLA.csv")) = 1


\* C26: in every run at most one connection is opened and at most one frame
\* is sent; a run that reaches the receive loop has opened exactly one
\* connection and sent exactly one frame, the subscribe frame (STREAM_BULK,
\* the chosen sec_type, req_type and id, add true), after connecting and
\* before the first receive; no message is handled before that frame.
C26_SubscribeOnce ==
    /\ connections <= 1
    /\ Len(frames) <= 1
    /\ Len(frames) = 1 =>
          /\ connections = 1
          /\ frames[1] = [msg_type |-> "STREAM_BULK", sec_type |-> sec_type,
                          req_type |-> req_type, add |-> TRUE, id |-> id]
    /\ pc = "streaming" => (connections = 1 /\ Len(frames) = 1)
    /\ (nmsgs > 0 \/ Stepped) => (connections = 1 /\ Len(frames) = 1)
    /\ pc = "connected" => (connections = 1 /\ frames = <<>> /\ nmsgs = 0)
C26_Witness ==
    /\ pc = "streaming"
    /\ nmsgs = 3
    /\ step.result = "written"
    /\ Len(frames) = 1
    /\ frames[1].sec_type = "OPTION"
    /\ frames[1].id = 7

\* C27: the consumer leaves the receive loop only by an exception (the
\* connection dropped, the receive failed, a message that is not JSON or that
\* the handler cannot read); it then stays terminated: it never connects,
\* subscribes, writes or counts again.  It never terminates without an error.
LeavesByError ==
    (pc = "streaming" /\ pc' # "streaming") => (pc' = "terminated" /\ error' # "none")
TerminatedForGood ==
    pc = "terminated" =>
        /\ pc' = "terminated"
        /\ UNCHANGED <<connections, frames, nmsgs, dirs, disk, download_stats, appended>>
LacksSomething ==
    /\ Typed
    /\ MsgType = HandledType(consumer)
    /\ step.msg \in Malformed

\* C30: when handling a message of the handled class fails because it lacks
\* the contract, the payload object or a field of the line, it fails before
\* any write: no file gains a header or a line, no counter changes, and the
\* exception ends the consumer instead of the message being discarded.
C30_FailsBeforeWrite ==
    LacksSomething =>
        /\ step.result = "raised"
        /\ step.exc = "KeyError"
        /\ disk = step.before.disk
        /\ download_stats = step.before.download_stats
        /\ pc = "terminated"
        /\ error = "KeyError"
C30_Witness ==
    /\ LacksSomething
    /\ step.msg = TradeMessage(OptionNoStrike, Trade(1))
    /\ step.before.dirs = {}
    /\ dirs = {"trades", "trades/options"}
    /\ disk = NoDisk
    /\ pc = "terminated"

============================================================================
